---- MODULE Spec2Model ----
(***************************************************************************)
(* A model of the NBD server of src/src/server.rs with the wire codec of   *)
(* src/src/proto.rs: the per-connection session (initial handshake, option *)
(* haggling, transmission loop) over a shared backing store (MemBlocks or  *)
(* File).                                                                  *)
(*                                                                         *)
(* One action is one blocking read on a connection's stream together with  *)
(* everything the server does before its next read: the frame it parses,   *)
(* the backing-store calls, and the frames it writes.  The client side of  *)
(* the stream is the environment: each action draws the bytes the server   *)
(* reads next (a frame, possibly malformed, possibly cut short by EOF)     *)
(* from a bounded set.  Writes to the stream are assumed not to fail.      *)
(***************************************************************************)
EXTENDS Integers, Sequences, FiniteSets, TLC

(***************************************************************************)
(* Bounds of the model.                                                    *)
(***************************************************************************)
\* Length of the session buffer (server.rs:349 allocates 4096 * 64 bytes);
\* the model runs the same code on a buffer of this many bytes.
BufCap == 2
\* Length of the byte array the store is created with.
StoreSize == 3
\* Requests one connection handles in the transmission loop.
MaxReqs == 3
\* Option frames one connection handles while haggling.
MaxOpts == 2
\* The calls of MemBlocks each thread makes
MaxCalls == 2
\* Width of usize in bits (64 on the targets the crate builds for); the
\* model keeps the wrap-around of off + len at this width.
UsizeBits == 6

\* The connections the server accepts
Conns == {1, 2}

UsizeMod == 2 ^ UsizeBits
USIZE_MAX == UsizeMod - 1

Min(a, b) == IF a < b THEN a ELSE b
Max(a, b) == IF a > b THEN a ELSE b

\* The bit positions set in an unsigned word.
BitSet(w) == {i \in 0..15 : (w \div (2 ^ i)) % 2 = 1}

(***************************************************************************)
(* proto.rs: constants and enums.                                          *)
(***************************************************************************)
MAGIC == "NBDMAGIC"
IHAVEOPT == "IHAVEOPT"
REPLY_MAGIC == "0x3e889045565a9"
REQUEST_MAGIC == 627086611
SIMPLE_REPLY_MAGIC == 1732535960

\* bitflags! HandshakeFlags (u16)
FIXED_NEWSTYLE == 1
NO_ZEROES == 2
HandshakeFlagsAll == {FIXED_NEWSTYLE, NO_ZEROES}

\* bitflags! ClientHandshakeFlags (u32)
C_FIXED_NEWSTYLE == 1
C_NO_ZEROES == 2
ClientHandshakeFlagsAll == {C_FIXED_NEWSTYLE, C_NO_ZEROES}

\* bitflags! TransmitFlags (u16): the three the server sets
HAS_FLAGS == 1
SEND_FLUSH == 4
SEND_FUA == 8

\* bitflags! CmdFlags (u16)
FUA == 1
NO_HOLE == 2
DF == 4
REQ_ONE == 8
FAST_ZERO == 16
CmdFlagsAll == {FUA, NO_HOLE, DF, REQ_ONE, FAST_ZERO}

\* A flag word as the set of the single-bit values set in it.
FlagSet(w) == {2 ^ i : i \in BitSet(w)}

\* bitflags' from_bits: None when a bit outside the defined ones is set.
from_bits(all, w) == IF FlagSet(w) \subseteq all THEN FlagSet(w) ELSE {-1}

\* Whether from_bits returned Some
IsSome(flags) == -1 \notin flags

CmdNames ==
    <<"READ", "WRITE", "DISCONNECT", "FLUSH", "TRIM", "CACHE", "WRITE_ZEROES",
      "BLOCK_STATUS", "RESIZE">>

\* #[derive(TryFromPrimitive)] enum Cmd
Cmd_try_from(n) == IF n \in 0..8 THEN CmdNames[n + 1] ELSE "invalid"

OptTypeNames ==
    <<"EXPORT_NAME", "ABORT", "LIST", "PEEK_EXPORT", "STARTTLS", "INFO", "GO">>

\* #[derive(TryFromPrimitive)] enum OptType
OptType_try_from(n) == IF n \in 1..7 THEN OptTypeNames[n] ELSE "invalid"

InfoTypeNames == <<"EXPORT", "NAME", "DESCRIPTION", "BLOCK_SIZE">>

\* #[derive(TryFromPrimitive)] enum InfoType
InfoType_try_from(n) == IF n \in 0..3 THEN InfoTypeNames[n + 1] ELSE "invalid"

\* ErrorType::from_io_kind
from_io_kind(kind) ==
    CASE kind = "PermissionDenied" -> "EPERM"
      [] kind = "InvalidInput" -> "EOVERFLOW"
      [] kind = "UnexpectedEof" -> "EOVERFLOW"
      [] OTHER -> "EIO"

(***************************************************************************)
(* server.rs: the backing store.  A Blocks call returns a set of possible  *)
(* results [res, kind, bytes, data, pois]: res is "Ok", "Err" (with the    *)
(* io::ErrorKind in kind) or "panic"; bytes is what a read filled in; data *)
(* and pois are the store's contents and the mutex's poison flag after the *)
(* call.                                                                   *)
(***************************************************************************)
BlocksOk(bytes, data, pois) ==
    [res |-> "Ok", kind |-> "", bytes |-> bytes, data |-> data, pois |-> pois]
BlocksErr(kind, data, pois) ==
    [res |-> "Err", kind |-> kind, bytes |-> <<>>, data |-> data, pois |-> pois]
BlocksPanic(data, pois) ==
    [res |-> "panic", kind |-> "", bytes |-> <<>>, data |-> data, pois |-> pois]

\* data[off..off+len] as a sequence (off counts from 0)
Slice(data, off, len) == SubSeq(data, off + 1, off + len)

\* data[off..off+len].copy_from_slice(buf)
CopyInto(data, off, buf) ==
    [i \in DOMAIN data |->
        IF off < i /\ i <= off + Len(buf) THEN buf[i - off] ELSE data[i]]

\* The bounds test `off + buf.len() > data.len()` and the slice that
\* follows it, shared by MemBlocks::read_at and write_at.  The sum is a usize
\* addition: when it overflows, a build with overflow checks panics at the
\* addition; a build without them wraps, and then either the test rejects the
\* request or the slice data[off..wrapped] panics (its start is past its
\* end).  Both panics happen with the mutex guard held, which poisons the
\* mutex.  Returns the set of "Ok" (in bounds), "Err" and "panic".
MemBounds(off, len, size) ==
    IF off + len >= UsizeMod
    THEN {"panic"} \cup
         (IF (off + len) % UsizeMod > size THEN {"Err"} ELSE {"panic"})
    ELSE IF off + len > size THEN {"Err"} ELSE {"Ok"}

\* impl Blocks for MemBlocks: read_at (buf.len() = len)
MemBlocks_read_at(data, pois, len, off) ==
    IF pois THEN {BlocksPanic(data, pois)}
    ELSE {CASE b = "Ok" -> BlocksOk(Slice(data, off, len), data, pois)
            [] b = "Err" -> BlocksErr("InvalidInput", data, pois)
            [] OTHER -> BlocksPanic(data, TRUE)
          : b \in MemBounds(off, len, Len(data))}

\* impl Blocks for MemBlocks: write_at
MemBlocks_write_at(data, pois, buf, off) ==
    IF pois THEN {BlocksPanic(data, pois)}
    ELSE {CASE b = "Ok" -> BlocksOk(<<>>, CopyInto(data, off, buf), pois)
            [] b = "Err" -> BlocksErr("InvalidInput", data, pois)
            [] OTHER -> BlocksPanic(data, TRUE)
          : b \in MemBounds(off, Len(buf), Len(data))}

\* impl Blocks for MemBlocks: size (lock().unwrap() panics on a poisoned mutex)
MemBlocks_size(data, pois) ==
    IF pois THEN [res |-> "panic", size |-> 0]
    ELSE [res |-> "Ok", size |-> Len(data)]

\* impl Blocks for MemBlocks: flush
MemBlocks_flush(data, pois) == {BlocksOk(<<>>, data, pois)}

\* pread/pwrite take the offset as a signed off_t: an offset with the top bit
\* set is rejected with EINVAL (io::ErrorKind::InvalidInput).
FileOffsetOk(off) == off < UsizeMod \div 2

\* impl Blocks for File: read_at = FileExt::read_exact_at.  An empty buffer
\* makes no system call; a read past the end of the file is a short read,
\* which read_exact_at reports as UnexpectedEof; any call may fail with an
\* I/O error of the host.
File_read_at(data, pois, len, off) ==
    IF len = 0 THEN {BlocksOk(<<>>, data, pois)}
    ELSE IF ~FileOffsetOk(off) THEN {BlocksErr("InvalidInput", data, pois)}
    ELSE {BlocksErr("Other", data, pois)} \cup
         (IF off + len <= Len(data)
          THEN {BlocksOk(Slice(data, off, len), data, pois)}
          ELSE {BlocksErr("UnexpectedEof", data, pois)})

\* The file's bytes after pwrite(buf, off): a write past the end extends the
\* file, and the gap reads as zeroes.
FileWritten(data, off, buf) ==
    [i \in 1..Max(Len(data), off + Len(buf)) |->
        IF off < i /\ i <= off + Len(buf) THEN buf[i - off]
        ELSE IF i <= Len(data) THEN data[i] ELSE 0]

\* impl Blocks for File: write_at = FileExt::write_all_at
File_write_at(data, pois, buf, off) ==
    IF Len(buf) = 0 THEN {BlocksOk(<<>>, data, pois)}
    ELSE IF ~FileOffsetOk(off) THEN {BlocksErr("InvalidInput", data, pois)}
    ELSE {BlocksErr("Other", data, pois),
          BlocksOk(<<>>, FileWritten(data, off, buf), pois)}

\* impl Blocks for File: size = metadata().len()
File_size(data, pois) == [res |-> "Ok", size |-> Len(data)]

\* impl Blocks for File: flush = sync_all, which may fail
File_flush(data, pois) ==
    {BlocksOk(<<>>, data, pois), BlocksErr("Other", data, pois)}

\* trait Blocks, dispatched on the implementation the server was built with
Blocks_read_at(impl, data, pois, len, off) ==
    IF impl = "mem" THEN MemBlocks_read_at(data, pois, len, off)
    ELSE File_read_at(data, pois, len, off)

Blocks_write_at(impl, data, pois, buf, off) ==
    IF impl = "mem" THEN MemBlocks_write_at(data, pois, buf, off)
    ELSE File_write_at(data, pois, buf, off)

Blocks_size(impl, data, pois) ==
    IF impl = "mem" THEN MemBlocks_size(data, pois) ELSE File_size(data, pois)

Blocks_flush(impl, data, pois) ==
    IF impl = "mem" THEN MemBlocks_flush(data, pois) ELSE File_flush(data, pois)

(***************************************************************************)
(* proto.rs: the transmission phase.                                       *)
(*                                                                         *)
(* The bytes of the stream the server parses a request from are a record   *)
(* [avail, magic, flags, typ, handle, offset, len, payload]: the six       *)
(* header fields as they stand on the wire, the number of them (avail,     *)
(* 0..6) that arrive before the stream ends, and the bytes that follow the *)
(* header before the stream ends or the client's frame ends (for a WRITE   *)
(* the client sends len of them).                                          *)
(***************************************************************************)
GetOk(req, buf) ==
    [status |-> "Ok", err |-> "", at |-> "", req |-> req, buf |-> buf]
GetErr(err, at) ==
    [status |-> "Err", err |-> err, at |-> at,
     req |-> [flags |-> {}, typ |-> "", handle |-> 0, offset |-> 0, len |-> 0,
              data_len |-> 0],
     buf |-> <<>>]

\* The session buffer after read_exact(&mut buf[..data_len]).  The bytes past
\* data_len are left over from earlier requests; no code reads them.
FillBuf(payload, data_len, buflen) ==
    [i \in 1..buflen |-> IF i <= data_len THEN payload[i] ELSE 0]

\* Request::get(stream, buf) with buf.len() = buflen.  An error is the kind of
\* its root cause, "UnexpectedEof" (an io::Error) or "ProtocolError", with
\* the field the read or the check failed at.
Request_get(f, buflen) ==
    IF f.avail < 1 THEN GetErr("UnexpectedEof", "magic")
    ELSE IF f.magic # REQUEST_MAGIC THEN GetErr("ProtocolError", "magic")
    ELSE IF f.avail < 2 THEN GetErr("UnexpectedEof", "flags")
    ELSE IF ~IsSome(from_bits(CmdFlagsAll, f.flags))
    THEN GetErr("ProtocolError", "flags")
    ELSE IF f.avail < 3 THEN GetErr("UnexpectedEof", "typ")
    ELSE IF Cmd_try_from(f.typ) = "invalid" THEN GetErr("ProtocolError", "typ")
    ELSE IF f.avail < 6 THEN GetErr("UnexpectedEof", "handle, offset, len")
    ELSE LET typ == Cmd_try_from(f.typ)
             data_len == IF typ = "WRITE" THEN Min(f.len, buflen) ELSE 0
         IN  IF Len(f.payload) < data_len
             THEN GetErr("UnexpectedEof", "payload")
             ELSE GetOk([flags |-> from_bits(CmdFlagsAll, f.flags),
                         typ |-> typ, handle |-> f.handle,
                         offset |-> f.offset, len |-> f.len,
                         data_len |-> data_len],
                        FillBuf(f.payload, data_len, buflen))

\* SimpleReply::data / ok / err, and the frame SimpleReply::put writes
SimpleReply_data(req, data) ==
    [frame |-> "SimpleReply", magic |-> SIMPLE_REPLY_MAGIC, err |-> "OK",
     handle |-> req.handle, data |-> data]

SimpleReply_ok(req) == SimpleReply_data(req, <<>>)

\* A faulty SimpleReply::err, which leaves the handle out; C3 must tell it
\* from the code
SimpleReply_err_no_handle(err, req) ==
    [frame |-> "SimpleReply", magic |-> SIMPLE_REPLY_MAGIC, err |-> err,
     handle |-> 0, data |-> <<>>]

SimpleReply_err(err, req) ==
    [frame |-> "SimpleReply", magic |-> SIMPLE_REPLY_MAGIC, err |-> err,
     handle |-> req.handle, data |-> <<>>]

(***************************************************************************)
(* server.rs: Export.  A call returns a set of [res, err, kind, bytes,     *)
(* data, pois, ops]: err is the ErrorType of an "Err" of read or write,    *)
(* kind the io::ErrorKind behind it, ops the Blocks calls made.            *)
(***************************************************************************)
ExportRes(res, err, kind, bytes, data, pois, ops) ==
    [res |-> res, err |-> err, kind |-> kind, bytes |-> bytes, data |-> data,
     pois |-> pois, ops |-> ops]

\* The result of a Blocks call as Export hands it on
OfBlocks(b, op) ==
    ExportRes(b.res, IF b.res = "Err" THEN from_io_kind(b.kind) ELSE "",
              b.kind, b.bytes, b.data, b.pois, <<op>>)

\* A faulty Export::read, which reads as much as the buffer holds when len
\* is larger; C5 must tell it from the code
Export_read_truncating(impl, data, pois, off, len, buflen) ==
    {OfBlocks(b, "read_at") :
        b \in Blocks_read_at(impl, data, pois, Min(len, buflen), off)}

\* Export::read(off, len, buf) with buf.len() = buflen
Export_read(impl, data, pois, off, len, buflen) ==
    IF buflen < len
    THEN {ExportRes("Err", "EOVERFLOW", "", <<>>, data, pois, <<>>)}
    ELSE {OfBlocks(b, "read_at") : b \in Blocks_read_at(impl, data, pois, len, off)}

\* Export::write(off, len, data) with `buf` the slice passed as data
Export_write(impl, data, pois, off, len, buf) ==
    IF len > Len(buf)
    THEN {ExportRes("Err", "EOVERFLOW", "", <<>>, data, pois, <<>>)}
    ELSE {OfBlocks(b, "write_at") :
            b \in Blocks_write_at(impl, data, pois, SubSeq(buf, 1, len), off)}

\* Export::flush: the io::Result of Blocks::flush
Export_flush(impl, data, pois) ==
    {OfBlocks(b, "flush") : b \in Blocks_flush(impl, data, pois)}

(***************************************************************************)
(* server.rs: ServerInner::handle_ops, one iteration of its loop.  The     *)
(* result is a set of [wrote, ctl, err, data, pois, ops]: the frames       *)
(* written to the stream, what the loop does next ("continue", "return_ok",*)
(* "return_err" with the root cause in err, or "panic"), the store after   *)
(* the iteration and the Blocks calls made.                                *)
(***************************************************************************)
Iter(wrote, ctl, err, data, pois, ops) ==
    [wrote |-> wrote, ctl |-> ctl, err |-> err, data |-> data, pois |-> pois,
     ops |-> ops]

\* `export.flush()?; SimpleReply::ok(&req).put(stream)?` after the Blocks
\* calls in ops0 were made
FlushThenOk(impl, data, pois, req, ops0) ==
    {CASE fl.res = "Ok" ->
            Iter(<<SimpleReply_ok(req)>>, "continue", "", fl.data, fl.pois,
                 ops0 \o fl.ops)
       [] fl.res = "Err" ->
            Iter(<<>>, "return_err", fl.kind, fl.data, fl.pois, ops0 \o fl.ops)
       [] OTHER -> Iter(<<>>, "panic", "", fl.data, fl.pois, ops0 \o fl.ops)
     : fl \in Export_flush(impl, data, pois)}

\* A faulty arm Cmd::READ, which returns after an error reply; C6 must tell
\* it from the code
handle_ops_READ_returning(impl, data, pois, req, buflen) ==
    {CASE r.res = "Ok" ->
            Iter(<<SimpleReply_data(req, r.bytes)>>, "continue", "", r.data,
                 r.pois, r.ops)
       [] r.res = "Err" ->
            Iter(<<SimpleReply_err(r.err, req)>>, "return_ok", "", r.data,
                 r.pois, r.ops)
       [] OTHER -> Iter(<<>>, "panic", "", r.data, r.pois, r.ops)
     : r \in Export_read(impl, data, pois, req.offset, req.len, buflen)}

\* the arm Cmd::READ
handle_ops_READ(impl, data, pois, req, buflen) ==
    {CASE r.res = "Ok" ->
            Iter(<<SimpleReply_data(req, r.bytes)>>, "continue", "", r.data,
                 r.pois, r.ops)
       [] r.res = "Err" ->
            Iter(<<SimpleReply_err(r.err, req)>>, "continue", "", r.data,
                 r.pois, r.ops)
       [] OTHER -> Iter(<<>>, "panic", "", r.data, r.pois, r.ops)
     : r \in Export_read(impl, data, pois, req.offset, req.len, buflen)}

\* the arm Cmd::WRITE
\* A faulty arm Cmd::WRITE, which does not flush for FUA; C21 must tell it
\* from the code
handle_ops_WRITE_no_flush(impl, data, pois, req, buf) ==
    UNION {CASE w.res = "Ok" ->
                 {Iter(<<SimpleReply_ok(req)>>, "continue", "", w.data,
                       w.pois, w.ops)}
             [] w.res = "Err" ->
                 {Iter(<<SimpleReply_err(w.err, req)>>, "continue", "", w.data,
                       w.pois, w.ops)}
             [] OTHER -> {Iter(<<>>, "panic", "", w.data, w.pois, w.ops)}
           : w \in Export_write(impl, data, pois, req.offset, req.data_len, buf)}

\* the arm Cmd::WRITE
handle_ops_WRITE(impl, data, pois, req, buf) ==
    UNION {CASE w.res = "Ok" ->
                 IF FUA \in req.flags
                 THEN FlushThenOk(impl, w.data, w.pois, req, w.ops)
                 ELSE {Iter(<<SimpleReply_ok(req)>>, "continue", "", w.data,
                            w.pois, w.ops)}
             [] w.res = "Err" ->
                 {Iter(<<SimpleReply_err(w.err, req)>>, "continue", "", w.data,
                       w.pois, w.ops)}
             [] OTHER -> {Iter(<<>>, "panic", "", w.data, w.pois, w.ops)}
           : w \in Export_write(impl, data, pois, req.offset, req.data_len, buf)}

\* the arm Cmd::DISCONNECT
handle_ops_DISCONNECT(data, pois, req) ==
    {Iter(<<>>, "return_ok", "", data, pois, <<>>)}

\* the arm Cmd::FLUSH
handle_ops_FLUSH(impl, data, pois, req) ==
    FlushThenOk(impl, data, pois, req, <<>>)

\* A faulty arm Cmd::TRIM, which zeroes the range inside the store; C19 must
\* tell it from the code
handle_ops_TRIM_zeroing(data, pois, req) ==
    {Iter(<<SimpleReply_ok(req)>>, "continue", "",
          [i \in DOMAIN data |->
              IF req.offset < i /\ i <= req.offset + req.len THEN 0 ELSE data[i]],
          pois, <<"write_at">>)}

\* the arm Cmd::TRIM
handle_ops_TRIM(data, pois, req) ==
    {Iter(<<SimpleReply_ok(req)>>, "continue", "", data, pois, <<>>)}

\* A faulty arm `_`, which goes on with the loop; C18 must tell it from the
\* code
handle_ops_other_continuing(data, pois, req) ==
    {Iter(<<SimpleReply_err("ENOTSUP", req)>>, "continue", "", data, pois, <<>>)}

\* the arm `_` (CACHE, WRITE_ZEROES, BLOCK_STATUS, RESIZE)
handle_ops_other(data, pois, req) ==
    {Iter(<<SimpleReply_err("ENOTSUP", req)>>, "return_ok", "", data, pois, <<>>)}

\* A faulty flag check, which rejects nothing; C17 must tell it from the code
UnexpectedFlags_none(req) == FALSE

\* A faulty flag check, which rejects FUA too; C8 must tell it from the code
UnexpectedFlags_any(req) == req.flags # {}

\* `req.flags.intersects(CmdFlags::FUA.complement())`
UnexpectedFlags(req) == req.flags \cap (CmdFlagsAll \ {FUA}) # {}

\* What the loop body does with the request Request::get returned
handle_ops_dispatch(impl, data, pois, req, buf) ==
    IF UnexpectedFlags(req)
    THEN {Iter(<<SimpleReply_err("ENOTSUP", req)>>, "continue", "", data, pois,
               <<>>)}
    ELSE CASE req.typ = "READ" -> handle_ops_READ(impl, data, pois, req, Len(buf))
           [] req.typ = "WRITE" -> handle_ops_WRITE(impl, data, pois, req, buf)
           [] req.typ = "DISCONNECT" -> handle_ops_DISCONNECT(data, pois, req)
           [] req.typ = "FLUSH" -> handle_ops_FLUSH(impl, data, pois, req)
           [] req.typ = "TRIM" -> handle_ops_TRIM(data, pois, req)
           [] OTHER -> handle_ops_other(data, pois, req)

\* One iteration of the loop of handle_ops on the stream bytes f
handle_ops(impl, data, pois, f) ==
    LET g == Request_get(f, BufCap)
    IN  IF g.status = "Err"
        THEN {Iter(<<>>, "return_err", g.err, data, pois, <<>>)}
        ELSE handle_ops_dispatch(impl, data, pois, g.req, g.buf)

\* A faulty handle_client, which returns every error of handle_ops; C9 must
\* tell it from the code
handle_client_result_strict(ctl, err) ==
    CASE ctl = "return_ok" -> "Ok"
      [] ctl = "return_err" -> "Err"
      [] ctl = "panic" -> "panic"
      [] OTHER -> "none"

\* ServerInner::handle_client: what it returns when handle_ops returned.
\* An error whose root cause is an io::Error of kind UnexpectedEof is Ok.
handle_client_result(ctl, err) ==
    CASE ctl = "return_ok" -> "Ok"
      [] ctl = "return_err" -> IF err = "UnexpectedEof" THEN "Ok" ELSE "Err"
      [] ctl = "panic" -> "panic"
      [] OTHER -> "none"

(***************************************************************************)
(* proto.rs: the handshake.                                                *)
(*                                                                         *)
(* The bytes the server parses an option from are a record [avail, magic,  *)
(* option, option_len, data_avail, data]: the three header fields, the     *)
(* number of them (0..3) that arrive before the stream ends, the number of *)
(* data bytes that arrive, and data, the option's data bytes described by  *)
(* what they decode to: [utf8, name_len, name_utf8, num, typs] (whether    *)
(* the whole data is UTF-8; and, read as an InfoRequest, the name length,  *)
(* whether the name is UTF-8, the request count and the u16 words after    *)
(* it).                                                                    *)
(***************************************************************************)
\* The limit of `ensure!(option_len < 10_000, ...)`
OPTION_LEN_LIMIT == 10000

OptOk(typ, len, data) ==
    [status |-> "Ok", err |-> "", at |-> "", typ |-> typ, len |-> len,
     data |-> data, alloc |-> len]
OptErr(err, at, alloc) ==
    [status |-> "Err", err |-> err, at |-> at, typ |-> "", len |-> 0,
     data |-> <<>>, alloc |-> alloc]

\* A faulty Opt::get, which does not compare the magic; C10 must tell it
\* from the code
Opt_get_any_magic(o) ==
    IF o.avail < 2 THEN OptErr("UnexpectedEof", "option", 0)
    ELSE IF OptType_try_from(o.option) = "invalid"
    THEN OptErr("ProtocolError", "option", 0)
    ELSE IF o.avail < 3 THEN OptErr("UnexpectedEof", "option_len", 0)
    ELSE IF ~(o.option_len < OPTION_LEN_LIMIT)
    THEN OptErr("ProtocolError", "option_len", 0)
    ELSE IF o.data_avail < o.option_len
    THEN OptErr("UnexpectedEof", "data", o.option_len)
    ELSE OptOk(OptType_try_from(o.option), o.option_len, o.data)

\* Opt::get(stream); alloc is the length of the vector it allocated
Opt_get(o) ==
    IF o.avail < 1 THEN OptErr("UnexpectedEof", "magic", 0)
    ELSE IF o.magic # IHAVEOPT THEN OptErr("ProtocolError", "magic", 0)
    ELSE IF o.avail < 2 THEN OptErr("UnexpectedEof", "option", 0)
    ELSE IF OptType_try_from(o.option) = "invalid"
    THEN OptErr("ProtocolError", "option", 0)
    ELSE IF o.avail < 3 THEN OptErr("UnexpectedEof", "option_len", 0)
    ELSE IF ~(o.option_len < OPTION_LEN_LIMIT)
    THEN OptErr("ProtocolError", "option_len", 0)
    ELSE IF o.data_avail < o.option_len
    THEN OptErr("UnexpectedEof", "data", o.option_len)
    ELSE OptOk(OptType_try_from(o.option), o.option_len, o.data)

InfoOk(typs, alloc) ==
    [status |-> "Ok", err |-> "", at |-> "", typs |-> typs, alloc |-> alloc]
InfoErr(err, at, alloc) ==
    [status |-> "Err", err |-> err, at |-> at, typs |-> <<>>, alloc |-> alloc]

\* The loop of InfoRequest::get over the requested types: i is the next one,
\* typs those pushed so far, len the length of the slice it reads from
RECURSIVE InfoRequest_typs(_, _, _, _)
InfoRequest_typs(d, len, i, typs) ==
    IF i > d.num THEN InfoOk(typs, d.name_len)
    ELSE IF len < 4 + d.name_len + 2 + 2 * i
    THEN InfoErr("UnexpectedEof", "typ", d.name_len)
    ELSE IF InfoType_try_from(d.typs[i]) = "invalid"
    THEN InfoErr("ProtocolError", "typ", d.name_len)
    ELSE InfoRequest_typs(d, len, i + 1,
                          Append(typs, InfoType_try_from(d.typs[i])))

\* InfoRequest::get(&mut &opt.data[..]); alloc is the length of the vector
\* allocated for the name
InfoRequest_get(d, len) ==
    IF len < 4 THEN InfoErr("UnexpectedEof", "name_len", 0)
    ELSE IF len < 4 + d.name_len THEN InfoErr("UnexpectedEof", "name", d.name_len)
    ELSE IF ~d.name_utf8 THEN InfoErr("ProtocolError", "name", d.name_len)
    ELSE IF len < 4 + d.name_len + 2
    THEN InfoErr("UnexpectedEof", "num_requests", d.name_len)
    ELSE InfoRequest_typs(d, len, 1, <<>>)

\* OptReply::new / ack, as the frame OptReply::put writes
OptReply_new(opt, reply_type, len, data) ==
    [frame |-> "OptReply", magic |-> REPLY_MAGIC, opt |-> opt,
     reply_type |-> reply_type, len |-> len, data |-> data]

OptReply_ack(opt) == OptReply_new(opt, "ACK", 0, <<>>)

\* A faulty ExportList::put, which writes the ACK before the SERVER reply;
\* C12 must tell it from the code
RECURSIVE ExportList_put_ack_first(_)
ExportList_put_ack_first(export_names) ==
    IF export_names = <<>> THEN <<>>
    ELSE <<OptReply_new("LIST", "ACK", 0, <<>>),
           OptReply_new("LIST", "SERVER", 4 + Len(Head(export_names)),
                        [name_len |-> Len(Head(export_names)),
                         name |-> Head(export_names)])>>
         \o ExportList_put_ack_first(Tail(export_names))

\* ExportList::put: for each name a SERVER reply (u32 length, then the name)
\* and, inside the same loop, an ACK
RECURSIVE ExportList_put(_)
ExportList_put(export_names) ==
    IF export_names = <<>> THEN <<>>
    ELSE <<OptReply_new("LIST", "SERVER", 4 + Len(Head(export_names)),
                        [name_len |-> Len(Head(export_names)),
                         name |-> Head(export_names)]),
           OptReply_ack("LIST")>> \o ExportList_put(Tail(export_names))

(***************************************************************************)
(* server.rs: the handshake of ServerInner.                                *)
(***************************************************************************)
\* Export::name: "default"
Export_name == <<"d", "e", "f", "a", "u", "l", "t">>

\* ServerInner::TRANSMIT_FLAGS
TRANSMIT_FLAGS == {HAS_FLAGS, SEND_FLUSH, SEND_FUA}

\* The frame initial_handshake writes before it reads the client's flags
Greeting ==
    [frame |-> "Greeting", magic |-> MAGIC, opt_magic |-> IHAVEOPT,
     flags |-> {FIXED_NEWSTYLE, NO_ZEROES}]

\* A faulty initial_handshake, which does not ask for C_FIXED_NEWSTYLE; C14
\* must tell it from the code
initial_handshake_lenient(cf) ==
    LET client_flags == from_bits(ClientHandshakeFlagsAll, cf.word)
    IN  IF ~cf.avail
        THEN [wrote |-> <<>>, res |-> "Err", err |-> "UnexpectedEof",
              flags |-> {}]
        ELSE IF ~IsSome(client_flags)
        THEN [wrote |-> <<>>, res |-> "Err", err |-> "ProtocolError",
              flags |-> {}]
        ELSE [wrote |-> <<>>, res |-> "Ok", err |-> "",
              flags |-> {FIXED_NEWSTYLE} \cup
                        (IF C_NO_ZEROES \in client_flags THEN {NO_ZEROES}
                         ELSE {})]

\* ServerInner::initial_handshake from its read on, on the stream bytes
\* cf = [avail, word]: whether the client's u32 flag word arrives, and the
\* word.  It writes nothing after the greeting.
initial_handshake(cf) ==
    LET client_flags == from_bits(ClientHandshakeFlagsAll, cf.word)
    IN  IF ~cf.avail
        THEN [wrote |-> <<>>, res |-> "Err", err |-> "UnexpectedEof",
              flags |-> {}]
        ELSE IF ~IsSome(client_flags) \/ C_FIXED_NEWSTYLE \notin client_flags
        THEN [wrote |-> <<>>, res |-> "Err", err |-> "ProtocolError",
              flags |-> {}]
        ELSE [wrote |-> <<>>, res |-> "Ok", err |-> "",
              flags |-> {FIXED_NEWSTYLE} \cup
                        (IF C_NO_ZEROES \in client_flags THEN {NO_ZEROES}
                         ELSE {})]

\* One iteration of handshake_haggle, and the calls it makes, return
\* [wrote, ctl, err, ops]: ctl is "continue", "transmit" (Ok(Some(export))),
\* "return_none" (Ok(None)), "return_err" or "panic".
Hag(wrote, ctl, err, ops) ==
    [wrote |-> wrote, ctl |-> ctl, err |-> err, ops |-> ops]

\* A faulty send_export_info, which writes the 124 zero bytes whatever was
\* negotiated; C27 must tell it from the code
send_export_info_zeroes(impl, data, pois, flags) ==
    LET sz == Blocks_size(impl, data, pois)
    IN  IF sz.res = "panic" THEN Hag(<<>>, "panic", "", <<"size">>)
        ELSE Hag(<<[frame |-> "ExportInfo", size |-> sz.size,
                    transmit_flags |-> TRANSMIT_FLAGS, zeroes |-> 124]>>,
                 "continue", "", <<"size">>)

\* The bytes of the frame send_export_info writes: write_u64, write_u16 and
\* the zeroes
ExportInfo_len(f) == 8 + 2 + f.zeroes

\* ServerInner::send_export_info
send_export_info(impl, data, pois, flags) ==
    LET sz == Blocks_size(impl, data, pois)
    IN  IF sz.res = "panic" THEN Hag(<<>>, "panic", "", <<"size">>)
        ELSE Hag(<<[frame |-> "ExportInfo", size |-> sz.size,
                    transmit_flags |-> TRANSMIT_FLAGS,
                    zeroes |-> IF NO_ZEROES \in flags THEN 0 ELSE 124]>>,
                 "continue", "", <<"size">>)

\* ServerInner::send_export_list
send_export_list == Hag(ExportList_put(<<Export_name>>), "continue", "", <<>>)

\* The loop of info_responses over info_req.typs chained with [EXPORT]:
\* i is the next type, h what was written and called so far
RECURSIVE info_responses_loop(_, _, _, _, _, _, _)
info_responses_loop(impl, data, pois, opt_typ, typs, i, h) ==
    IF i > Len(typs)
    THEN Hag(Append(h.wrote, OptReply_ack(opt_typ)), "continue", "", h.ops)
    ELSE CASE typs[i] = "EXPORT" ->
                LET sz == Blocks_size(impl, data, pois)
                IN  IF sz.res = "panic"
                    THEN Hag(h.wrote, "panic", "", Append(h.ops, "size"))
                    ELSE info_responses_loop(impl, data, pois, opt_typ, typs, i + 1,
                           Hag(Append(h.wrote,
                                      OptReply_new(opt_typ, "INFO", 12,
                                          [info |-> "EXPORT", size |-> sz.size,
                                           transmit_flags |-> TRANSMIT_FLAGS])),
                               "continue", "", Append(h.ops, "size")))
           [] typs[i] = "BLOCK_SIZE" ->
                info_responses_loop(impl, data, pois, opt_typ, typs, i + 1,
                    Hag(Append(h.wrote,
                               OptReply_new(opt_typ, "INFO", 14,
                                   [info |-> "BLOCK_SIZE", minimum |-> 1,
                                    preferred |-> 4096, maximum |-> 4096 * 32])),
                        "continue", "", h.ops))
           [] OTHER ->
                Hag(Append(h.wrote, OptReply_new(opt_typ, "ERR_UNSUP", 0, <<>>)),
                    "continue", "", h.ops)

\* A faulty info_responses, which ends the exchange with an ACK after the
\* ERR_UNSUP as well; C31 must tell it from the code
info_responses_acking(impl, data, pois, opt_typ, typs) ==
    LET h == info_responses_loop(impl, data, pois, opt_typ, typs \o <<"EXPORT">>,
                                 1, Hag(<<>>, "continue", "", <<>>))
    IN  IF h.wrote # <<>> /\ h.wrote[Len(h.wrote)].reply_type = "ERR_UNSUP"
        THEN [h EXCEPT !.wrote = Append(@, OptReply_ack(opt_typ))]
        ELSE h

\* ServerInner::info_responses
info_responses(impl, data, pois, opt_typ, typs) ==
    info_responses_loop(impl, data, pois, opt_typ, typs \o <<"EXPORT">>, 1,
                        Hag(<<>>, "continue", "", <<>>))

\* `InfoRequest::get(&mut &opt.data[..])?; self.info_responses(..)?`
InfoExchange(impl, data, pois, opt) ==
    LET info_req == InfoRequest_get(opt.data, opt.len)
    IN  IF info_req.status = "Err" THEN Hag(<<>>, "return_err", info_req.err, <<>>)
        ELSE info_responses(impl, data, pois, opt.typ, info_req.typs)

\* the arm OptType::EXPORT_NAME
haggle_EXPORT_NAME(impl, data, pois, flags, opt) ==
    IF ~opt.data.utf8 THEN Hag(<<>>, "return_err", "ProtocolError", <<>>)
    ELSE LET h == send_export_info(impl, data, pois, flags)
         IN  IF h.ctl = "continue" THEN [h EXCEPT !.ctl = "transmit"] ELSE h

\* the arm OptType::GO
haggle_GO(impl, data, pois, opt) ==
    LET h == InfoExchange(impl, data, pois, opt)
    IN  IF h.ctl = "continue" THEN [h EXCEPT !.ctl = "transmit"] ELSE h

\* A faulty arm OptType::ABORT, which goes on to the transmission phase;
\* C13 must tell it from the code
haggle_ABORT_transmitting == Hag(<<>>, "transmit", "", <<>>)

\* the arm OptType::ABORT
haggle_ABORT == Hag(<<>>, "return_none", "", <<>>)

\* A faulty arm `_`, which acknowledges the option; C11 must tell it from
\* the code
haggle_other_acking(opt) ==
    Hag(<<OptReply_ack(opt.typ)>>, "continue", "", <<>>)

\* A faulty arm `_`, which answers the option as handle_ops answers a
\* command it does not know; C32 must tell it from the code
haggle_other_as_request(opt) ==
    Hag(<<SimpleReply_err("ENOTSUP", [handle |-> 0])>>, "continue", "", <<>>)

\* the arm `_` (PEEK_EXPORT, STARTTLS)
haggle_other(opt) ==
    Hag(<<OptReply_new(opt.typ, "ERR_UNSUP", 0, <<>>)>>, "continue", "", <<>>)

\* A faulty handshake_haggle, which takes the end of the stream for a client
\* that went away and returns Ok(None); C39 must tell it from the code
handshake_haggle_eof_none(impl, data, pois, flags, o) ==
    LET opt == Opt_get(o)
    IN  IF opt.status = "Err" /\ opt.err = "UnexpectedEof"
        THEN Hag(<<>>, "return_none", "", <<>>)
        ELSE IF opt.status = "Err" THEN Hag(<<>>, "return_err", opt.err, <<>>)
        ELSE CASE opt.typ = "EXPORT_NAME" ->
                    haggle_EXPORT_NAME(impl, data, pois, flags, opt)
               [] opt.typ = "LIST" -> send_export_list
               [] opt.typ = "INFO" -> InfoExchange(impl, data, pois, opt)
               [] opt.typ = "GO" -> haggle_GO(impl, data, pois, opt)
               [] opt.typ = "ABORT" -> haggle_ABORT
               [] OTHER -> haggle_other(opt)

\* One iteration of the loop of handshake_haggle on the stream bytes o
handshake_haggle(impl, data, pois, flags, o) ==
    LET opt == Opt_get(o)
    IN  IF opt.status = "Err" THEN Hag(<<>>, "return_err", opt.err, <<>>)
        ELSE CASE opt.typ = "EXPORT_NAME" ->
                    haggle_EXPORT_NAME(impl, data, pois, flags, opt)
               [] opt.typ = "LIST" -> send_export_list
               [] opt.typ = "INFO" -> InfoExchange(impl, data, pois, opt)
               [] opt.typ = "GO" -> haggle_GO(impl, data, pois, opt)
               [] opt.typ = "ABORT" -> haggle_ABORT
               [] OTHER -> haggle_other(opt)

(***************************************************************************)
(* client.rs: Client, and the frames of proto.rs it reads and writes.      *)
(***************************************************************************)
\* bitflags! TransmitFlags (u16): the bits 0 .. 11 are defined
TransmitFlagsAll == {2 ^ i : i \in 0..11}

\* A faulty Client::initial_handshake, which answers the greeting without
\* C_NO_ZEROES; C40 must tell it from the code
Client_initial_handshake_zeroes(frames) ==
    IF frames = <<>> THEN [res |-> "Err", out |-> 0]
    ELSE IF frames[1].frame # "Greeting" \/ frames[1].magic # MAGIC
    THEN [res |-> "Err", out |-> 0]
    ELSE IF frames[1].opt_magic # IHAVEOPT THEN [res |-> "Err", out |-> 0]
    ELSE IF ~(frames[1].flags \subseteq HandshakeFlagsAll)
    THEN [res |-> "Err", out |-> 0]
    ELSE IF ~({FIXED_NEWSTYLE, NO_ZEROES} \subseteq frames[1].flags)
    THEN [res |-> "Err", out |-> 0]
    ELSE [res |-> "Ok", out |-> C_FIXED_NEWSTYLE]

\* Client::initial_handshake on the frames the server has written: Ok with
\* the flag word it writes, or Err
Client_initial_handshake(frames) ==
    IF frames = <<>> THEN [res |-> "Err", out |-> 0]
    ELSE IF frames[1].frame # "Greeting" \/ frames[1].magic # MAGIC
    THEN [res |-> "Err", out |-> 0]
    ELSE IF frames[1].opt_magic # IHAVEOPT THEN [res |-> "Err", out |-> 0]
    ELSE IF ~(frames[1].flags \subseteq HandshakeFlagsAll)
    THEN [res |-> "Err", out |-> 0]
    ELSE IF ~({FIXED_NEWSTYLE, NO_ZEROES} \subseteq frames[1].flags)
    THEN [res |-> "Err", out |-> 0]
    ELSE [res |-> "Ok", out |-> C_FIXED_NEWSTYLE + C_NO_ZEROES]

\* The option Client::handshake_haggle puts: EXPORT_NAME "default"
Client_handshake_haggle ==
    [avail |-> 3, magic |-> IHAVEOPT, option |-> 1, option_len |-> 7,
     data_avail |-> 7,
     data |-> [utf8 |-> TRUE, name_len |-> 0, name_utf8 |-> TRUE, num |-> 0,
               typs |-> <<>>]]

\* The bytes Client::get_export_info reads: 8 of read_u64 and 2 of read_u16
Client_get_export_info_len == 10

\* A faulty Client::get_export_info, which rounds the size down to whole
\* blocks of BufCap bytes; C15 must tell it from the code
Client_get_export_info_rounding(frames, closed) ==
    IF frames = <<>> \/ frames[1].frame # "ExportInfo"
    THEN [res |-> "Err", size |-> 0]
    ELSE [res |-> "Ok", size |-> frames[1].size - (frames[1].size % BufCap)]

\* Client::get_export_info on the frames the server wrote in answer to the
\* option; closed: the server has closed the stream.  The client asked for
\* NO_ZEROES, so that the 124 zero bytes are not part of the frame.
Client_get_export_info(frames, closed) ==
    IF frames = <<>>
    THEN [res |-> IF closed THEN "Err" ELSE "blocked", size |-> 0]
    ELSE IF frames[1].frame # "ExportInfo" THEN [res |-> "Err", size |-> 0]
    ELSE IF ~(frames[1].transmit_flags \subseteq TransmitFlagsAll)
    THEN [res |-> "Err", size |-> 0]
    ELSE [res |-> "Ok", size |-> frames[1].size]

\* Request::new(typ, offset, len) with the handle it draws, and the frame
\* Request::put writes for it with the data of a WRITE
Request_new(typ, handle, offset, len, data) ==
    [avail |-> 6, magic |-> REQUEST_MAGIC, flags |-> 0, typ |-> typ,
     handle |-> handle, offset |-> offset, len |-> len,
     payload |-> IF typ = 1 THEN SubSeq(data, 1, len) ELSE <<>>]

\* SimpleReply::get(stream, buf) with a buf of buflen bytes, on the frames
\* the server wrote in answer to the request: after the header it reads
\* buflen bytes with read_exact, whatever err is.  res is "Ok", "Err", or
\* "blocked" when the bytes it waits for are not sent and the stream stays
\* open.
SimpleReply_get(frames, closed, buflen) ==
    IF frames = <<>>
    THEN [res |-> IF closed THEN "Err" ELSE "blocked", err |-> "", handle |-> 0,
          data |-> <<>>]
    ELSE IF frames[1].frame # "SimpleReply" \/ frames[1].magic # SIMPLE_REPLY_MAGIC
    THEN [res |-> "Err", err |-> "", handle |-> 0, data |-> <<>>]
    ELSE IF Len(frames[1].data) < buflen
    THEN [res |-> IF closed THEN "Err" ELSE "blocked", err |-> frames[1].err,
          handle |-> frames[1].handle, data |-> <<>>]
    ELSE [res |-> "Ok", err |-> frames[1].err, handle |-> frames[1].handle,
          data |-> SubSeq(frames[1].data, 1, buflen)]

\* Client::get_reply_data: the call fails when the reply's err is not OK
Client_get_reply_data(frames, closed, buflen) ==
    LET reply == SimpleReply_get(frames, closed, buflen)
    IN  IF reply.res # "Ok" THEN [res |-> reply.res, data |-> <<>>]
        ELSE IF reply.err # "OK" THEN [res |-> "Err", data |-> <<>>]
        ELSE [res |-> "Ok", data |-> reply.data]

\* Client::get_ack
Client_get_ack(frames, closed) == Client_get_reply_data(frames, closed, 0)

\* The request a call of Client::read, write, flush or disconnect puts
Client_put(call, handle) ==
    CASE call.op = "read" -> Request_new(0, handle, call.offset, call.len, <<>>)
      [] call.op = "write" ->
            Request_new(1, handle, call.offset, Len(call.data), call.data)
      [] call.op = "flush" -> Request_new(3, handle, 0, 0, <<>>)
      [] OTHER -> Request_new(2, handle, 0, 0, <<>>)

\* What the call returns, given the frames the server wrote in answer
Client_return(call, frames, closed) ==
    CASE call.op = "read" -> Client_get_reply_data(frames, closed, call.len)
      [] call.op = "write" -> Client_get_ack(frames, closed)
      [] call.op = "flush" -> Client_get_ack(frames, closed)
      [] OTHER -> [res |-> "Ok", data |-> <<>>]

(***************************************************************************)
(* The state.                                                              *)
(***************************************************************************)
VARIABLES
    listening,  \* Server::start is inside its loop over listener.incoming()
    impl,       \* the Blocks implementation the server exports: "mem" or "file"
    blocks,     \* the bytes of the store (MemBlocks' Vec<u8>, or the file)
    poisoned,   \* whether MemBlocks' mutex is poisoned
    phase,      \* per connection: "IDLE" (not accepted), "GREETING", "HAGGLE",
                \* "TRANSMIT", "CLOSED"
    result,     \* per connection: what handle_client returned ("Ok", "Err"),
                \* "panic" when its thread panicked, "none" while it runs
    hflags,     \* per connection: the HandshakeFlags initial_handshake returned
    wrote,      \* per connection: the frames its last step wrote to the stream
    ops,        \* per connection: the Blocks calls its last step made
    lastIn,     \* per connection: the stream bytes its last step read, as
                \* [kind, frame] with kind "flags", "opt" or "req" ("none"
                \* when it read nothing)
    nOpts,      \* per connection: calls of Opt::get so far
    nReqs,      \* per connection: calls of Request::get so far
    nReplies,   \* per connection: SimpleReply frames written so far
    ref,        \* the reference array: the initial contents with every WRITE
                \* acknowledged OK applied in order, each with the payload
                \* the client sent for it
    unflushed,  \* per connection: the write [off, data] its last request made
                \* and got an OK reply for, if no WRITE since overlaps it
    committed,  \* the writes [off, data] that were acknowledged OK and then
                \* followed, on their connection, by a FLUSH acknowledged OK,
                \* and that no WRITE since overlaps
    durable,    \* the bytes of the store that are on stable storage, where
                \* write_at changes blocks only and a flush that returns Ok
                \* copies blocks to stable storage
    calls,      \* per session thread: the call of MemBlocks it is in, step by
                \* step, as [pc, op, off, len, buf, i, locked, snap, res, n]:
                \* pc is "idle", "lock" (at lock()), "check" (at the bounds
                \* test), "copy" (inside copy_from_slice, i bytes done),
                \* "done" or "panicked"; locked: it holds the MutexGuard;
                \* snap: the Vec when it took the lock; n: calls made
    codec,      \* a value of proto.rs on its way through put and get, as
                \* [kind, stage, x, wire, back]: kind is "opt", "req" or
                \* "reply", stage "new", "put" or "got"; x is the value,
                \* wire what put wrote, back what get returned
    nbd,        \* the NBD device file a program has open, as [prog, todo,
                \* ioctls, ret]: the program that runs ("none" before), the
                \* ioctls it has still to issue, the ioctls it has issued,
                \* each with whether it succeeded, and what it returned
    client      \* per connection: the Client at its other end, when there
                \* is one, as [pc, size, ret, data]: pc is "none", "greeted"
                \* (initial_handshake returned Ok), "haggling" (the option
                \* is put), "ready" (Client::new returned Ok), "failed",
                \* "blocked" (inside a read that does not return) or
                \* "closed"; size is Client.export.size; ret and data are
                \* what its last call returned

vars ==
    <<listening, impl, blocks, poisoned, phase, result, hflags, wrote, ops, lastIn,
      nOpts, nReqs, nReplies, ref, unflushed, committed, durable, calls,
      codec, nbd, client>>

\* The contents the store is created with: a pattern that differs from one
\* offset to the next
InitialBlocks == [i \in 1..StoreSize |-> i % 3]

NoIn == [kind |-> "none", frame |-> <<>>]

NoCall ==
    [pc |-> "idle", op |-> "", off |-> 0, len |-> 0, buf |-> <<>>, i |-> 0,
     locked |-> FALSE, snap |-> <<>>, res |-> "", n |-> 0]

NoCodec == [kind |-> "none", stage |-> "new", x |-> <<>>, wire |-> <<>>,
            back |-> <<>>]

NoNbd == [prog |-> "none", todo |-> <<>>, ioctls |-> <<>>, ret |-> "none"]

NoClient == [pc |-> "none", size |-> 0, ret |-> "none", data |-> <<>>]

\* The server that exports the store data, with nothing connected
InitServer(i, data) ==
    /\ listening = TRUE
    /\ impl = i
    /\ blocks = data
    /\ poisoned = FALSE
    /\ phase = [c \in Conns |-> "IDLE"]
    /\ result = [c \in Conns |-> "none"]
    /\ hflags = [c \in Conns |-> {}]
    /\ wrote = [c \in Conns |-> <<>>]
    /\ ops = [c \in Conns |-> <<>>]
    /\ lastIn = [c \in Conns |-> NoIn]
    /\ nOpts = [c \in Conns |-> 0]
    /\ nReqs = [c \in Conns |-> 0]
    /\ nReplies = [c \in Conns |-> 0]
    /\ ref = data
    /\ unflushed = [c \in Conns |-> {}]
    /\ committed = {}
    /\ durable = data
    /\ calls = [c \in Conns |-> NoCall]
    /\ nbd = NoNbd
    /\ client = [c \in Conns |-> NoClient]

\* A server that exports the store data, with nothing connected
InitStore(i, data) == InitServer(i, data) /\ codec = NoCodec

InitWith(i) == InitStore(i, InitialBlocks)

\* Server::new(MemBlocks::new(..))
Init == InitWith("mem")

\* Server::new(file)
InitFile == InitWith("file")

\* The SimpleReply frames among those a step wrote
SimpleReplies(frames) == SelectSeq(frames, LAMBDA fr : fr.frame = "SimpleReply")

\* The bytes off .. off + len - 1 include a byte of the write e
Overlaps(e, off, len) == off < e.off + Len(e.data) /\ e.off < off + len

\* The reference array with the payload of a WRITE applied; bytes addressed
\* past its end are dropped
RefWrite(arr, off, payload) ==
    [i \in DOMAIN arr |->
        IF off < i /\ i <= off + Len(payload) THEN payload[i - off] ELSE arr[i]]

(***************************************************************************)
(* The actions.                                                            *)
(***************************************************************************)
\* Server::start: accept a connection and spawn the thread that runs
\* handle_client on it, which writes the greeting of initial_handshake and
\* waits for the client's flags
Accept(c) ==
    /\ listening
    /\ phase[c] = "IDLE"
    /\ phase' = [phase EXCEPT ![c] = "GREETING"]
    /\ wrote' = [wrote EXCEPT ![c] = <<Greeting>>]
    /\ ops' = [ops EXCEPT ![c] = <<>>]
    /\ UNCHANGED <<listening, impl, blocks, poisoned, result, hflags, lastIn,
                   nOpts, nReqs, nReplies, ref, unflushed, committed, durable>>

\* Server::start: the connection c makes `listener.incoming()` yield an Err
\* (the client aborted it before it was accepted), or set_nodelay fails on
\* its socket (the client has reset it); the `?` returns from start
AcceptFails(c) ==
    /\ listening
    /\ phase[c] = "IDLE"
    /\ listening' = FALSE
    /\ phase' = [phase EXCEPT ![c] = "CLOSED"]
    /\ wrote' = [wrote EXCEPT ![c] = <<>>]
    /\ ops' = [ops EXCEPT ![c] = <<>>]
    /\ UNCHANGED <<impl, blocks, poisoned, result, hflags, lastIn,
                   nOpts, nReqs, nReplies, ref, unflushed, committed, durable>>

\* handle_client: the rest of initial_handshake, reading the client's flag
\* word cf
InitialHandshake(c, cf) ==
    /\ phase[c] = "GREETING"
    /\ LET h == initial_handshake(cf)
       IN  /\ wrote' = [wrote EXCEPT ![c] = h.wrote]
           /\ hflags' = [hflags EXCEPT ![c] = h.flags]
           /\ phase' = [phase EXCEPT ![c] = IF h.res = "Ok" THEN "HAGGLE"
                                           ELSE "CLOSED"]
           /\ result' = [result EXCEPT ![c] = IF h.res = "Ok" THEN "none"
                                             ELSE "Err"]
    /\ ops' = [ops EXCEPT ![c] = <<>>]
    /\ lastIn' = [lastIn EXCEPT ![c] = [kind |-> "flags", frame |-> cf]]
    /\ UNCHANGED <<listening, impl, blocks, poisoned, nOpts, nReqs, nReplies,
                   ref, unflushed, committed, durable>>

\* handle_client: one iteration of handshake_haggle, reading the option o.
\* Any error of the handshake is returned as it is; Ok(None) returns Ok.
Haggle(c, o) ==
    /\ phase[c] = "HAGGLE"
    /\ nOpts[c] < MaxOpts
    /\ LET h == handshake_haggle(impl, blocks, poisoned, hflags[c], o)
       IN  /\ wrote' = [wrote EXCEPT ![c] = h.wrote]
           /\ ops' = [ops EXCEPT ![c] = h.ops]
           /\ phase' = [phase EXCEPT ![c] =
                          CASE h.ctl = "continue" -> "HAGGLE"
                            [] h.ctl = "transmit" -> "TRANSMIT"
                            [] OTHER -> "CLOSED"]
           /\ result' = [result EXCEPT ![c] =
                          CASE h.ctl = "return_none" -> "Ok"
                            [] h.ctl = "return_err" -> "Err"
                            [] h.ctl = "panic" -> "panic"
                            [] OTHER -> "none"]
    /\ lastIn' = [lastIn EXCEPT ![c] = [kind |-> "opt", frame |-> o]]
    /\ nOpts' = [nOpts EXCEPT ![c] = @ + 1]
    /\ UNCHANGED <<listening, impl, blocks, poisoned, hflags, nReqs, nReplies,
                   ref, unflushed, committed, durable>>

\* What a step that read the request f and wrote the frames w does to the
\* reference array and to the record of acknowledged writes
Sent(f) == SubSeq(f.payload, 1, Min(f.len, Len(f.payload)))
IsCmd(f, typ) ==
    Request_get(f, BufCap).status = "Ok" /\ Request_get(f, BufCap).req.typ = typ
AckedOK(w) == SimpleReplies(w) # <<>> /\ SimpleReplies(w)[1].err = "OK"

Acknowledge(c, f, w) ==
    /\ ref' = IF IsCmd(f, "WRITE") /\ AckedOK(w)
              THEN RefWrite(ref, f.offset, Sent(f))
              ELSE ref
    /\ unflushed' =
         [d \in Conns |->
            IF d = c
            THEN IF IsCmd(f, "WRITE") /\ AckedOK(w)
                 THEN {[off |-> f.offset, data |-> Sent(f)]}
                 ELSE {}
            ELSE IF IsCmd(f, "WRITE")
                 THEN {e \in unflushed[d] : ~Overlaps(e, f.offset, f.len)}
                 ELSE unflushed[d]]
    /\ committed' =
         IF IsCmd(f, "WRITE")
         THEN {e \in committed : ~Overlaps(e, f.offset, f.len)}
         ELSE IF IsCmd(f, "FLUSH") /\ AckedOK(w)
         THEN committed \cup unflushed[c]
         ELSE committed

\* The last Blocks call of the iteration was a flush, and it returned Ok
Flushed(it) ==
    /\ it.ops # <<>>
    /\ it.ops[Len(it.ops)] = "flush"
    /\ it.ctl = "continue"

\* handle_client: one iteration of handle_ops, reading the request f.  When
\* the WRITE before it was longer than the buffer, the bytes the server did
\* not consume are the first bytes of f.
Transmit(c, f) ==
    /\ phase[c] = "TRANSMIT"
    /\ nReqs[c] < MaxReqs
    /\ \E it \in handle_ops(impl, blocks, poisoned, f) :
        /\ wrote' = [wrote EXCEPT ![c] = it.wrote]
        /\ ops' = [ops EXCEPT ![c] = it.ops]
        /\ blocks' = it.data
        /\ poisoned' = it.pois
        /\ phase' = [phase EXCEPT ![c] = IF it.ctl = "continue" THEN "TRANSMIT"
                                        ELSE "CLOSED"]
        /\ result' = [result EXCEPT ![c] = handle_client_result(it.ctl, it.err)]
        /\ nReplies' = [nReplies EXCEPT ![c] = @ + Len(SimpleReplies(it.wrote))]
        /\ Acknowledge(c, f, it.wrote)
        /\ durable' = IF Flushed(it) THEN it.data ELSE durable
    /\ lastIn' = [lastIn EXCEPT ![c] = [kind |-> "req", frame |-> f]]
    /\ nReqs' = [nReqs EXCEPT ![c] = @ + 1]
    /\ UNCHANGED <<listening, impl, hflags, nOpts>>

\* Client::new, first part: TcpStream::connect, which the server accepts, and
\* initial_handshake on the greeting
ClientConnect(c) ==
    /\ client[c].pc = "none"
    /\ Accept(c)
    /\ client' = [client EXCEPT ![c] =
                    IF Client_initial_handshake(wrote'[c]).res = "Ok"
                    THEN [@ EXCEPT !.pc = "greeted"]
                    ELSE [@ EXCEPT !.pc = "failed", !.ret = "Err"]]

\* Client::new, second part: the flag word initial_handshake wrote reaches
\* the server, while handshake_haggle puts its option
ClientFlags(c) ==
    /\ client[c].pc = "greeted"
    /\ InitialHandshake(c, [avail |-> TRUE,
                            word |-> Client_initial_handshake(wrote[c]).out])
    /\ client' = [client EXCEPT ![c].pc = "haggling"]

\* Client::new, last part: the option reaches the server and get_export_info
\* reads its answer
ClientHaggle(c) ==
    /\ client[c].pc = "haggling"
    /\ Haggle(c, Client_handshake_haggle)
    /\ LET e == Client_get_export_info(wrote'[c], phase'[c] = "CLOSED")
       IN  client' = [client EXCEPT ![c] =
                        CASE e.res = "Ok" ->
                                [@ EXCEPT !.pc = "ready", !.size = e.size,
                                          !.ret = "Ok"]
                          [] e.res = "Err" -> [@ EXCEPT !.pc = "failed", !.ret = "Err"]
                          [] OTHER -> [@ EXCEPT !.pc = "blocked", !.ret = "blocked"]]

\* Client::read, write, flush or disconnect: the request is put, the server
\* handles it, and the client reads the reply
ClientCall(c, call, handle) ==
    /\ client[c].pc = "ready"
    /\ Transmit(c, Client_put(call, handle))
    /\ LET r == Client_return(call, wrote'[c], phase'[c] = "CLOSED")
       IN  client' = [client EXCEPT ![c] =
                        [pc |-> CASE call.op = "disconnect" -> "closed"
                                  [] r.res = "blocked" -> "blocked"
                                  [] OTHER -> "ready",
                         size |-> @.size, ret |-> r.res, data |-> r.data]]

\* Client::new on a stream whose other end is some NBD server, which sends
\* the greeting and answers the option with the frame info
PeerNew(c, info) ==
    /\ client[c].pc = "none"
    /\ LET g == Client_initial_handshake(<<Greeting>>)
           e == Client_get_export_info(<<info>>, FALSE)
       IN  client' = [client EXCEPT ![c] =
                        IF g.res = "Ok" /\ e.res = "Ok"
                        THEN [@ EXCEPT !.pc = "ready", !.size = e.size,
                                       !.ret = "Ok"]
                        ELSE [@ EXCEPT !.pc = "failed", !.ret = "Err"]]
    /\ lastIn' = [lastIn EXCEPT ![c] =
                    [kind |-> "opt", frame |-> Client_handshake_haggle]]
    /\ wrote' = [wrote EXCEPT ![c] = <<info>>]
    /\ UNCHANGED <<listening, impl, blocks, poisoned, phase, result, hflags,
                   ops, nOpts, nReqs, nReplies, ref, unflushed, committed,
                   durable, calls, codec, nbd>>

\* Client::read, write, flush or disconnect on that stream: the request is
\* put, the server at the other end answers it with the frames answer, and
\* the client reads its reply
PeerCall(c, call, handle, answer) ==
    /\ client[c].pc = "ready"
    /\ lastIn' = [lastIn EXCEPT ![c] =
                    [kind |-> "req", frame |-> Client_put(call, handle)]]
    /\ wrote' = [wrote EXCEPT ![c] = answer]
    /\ LET r == Client_return(call, answer, FALSE)
       IN  client' = [client EXCEPT ![c] =
                        [pc |-> CASE call.op = "disconnect" -> "closed"
                                  [] r.res = "blocked" -> "blocked"
                                  [] OTHER -> "ready",
                         size |-> @.size, ret |-> r.res, data |-> r.data]]
    /\ UNCHANGED <<listening, impl, blocks, poisoned, phase, result, hflags,
                   ops, nOpts, nReqs, nReplies, ref, unflushed, committed,
                   durable, calls, codec, nbd>>

(***************************************************************************)
(* proto.rs: put, and a value taken through put and get.                   *)
(***************************************************************************)
\* `typ.into()` of OptType and of Cmd (num_enum IntoPrimitive)
OptType_into(typ) == CHOOSE n \in 1..7 : OptTypeNames[n] = typ
Cmd_into_index(typ) == CHOOSE n \in 1..9 : CmdNames[n] = typ

Cmd_into(typ) == (CHOOSE n \in 1..9 : CmdNames[n] = typ) - 1

\* `flags.bits()`
RECURSIVE bits(_)
bits(flags) ==
    IF flags = {} THEN 0
    ELSE LET b == CHOOSE b \in flags : TRUE IN b + bits(flags \ {b})

\* Opt::put: the frame, which arrives whole.  An Opt is [typ, len, data] with
\* len = data.len().
Opt_put(opt) ==
    [avail |-> 3, magic |-> IHAVEOPT, option |-> OptType_into(opt.typ),
     option_len |-> opt.len, data_avail |-> opt.len, data |-> opt.data]

\* Request::put(data, stream): it writes data[..data_len]
Request_put(req, data) ==
    [avail |-> 6, magic |-> REQUEST_MAGIC, flags |-> bits(req.flags),
     typ |-> Cmd_into(req.typ), handle |-> req.handle, offset |-> req.offset,
     len |-> req.len, payload |-> SubSeq(data, 1, req.data_len)]

\* SimpleReply::put
SimpleReply_put(reply) ==
    [frame |-> "SimpleReply", magic |-> SIMPLE_REPLY_MAGIC, err |-> reply.err,
     handle |-> reply.handle, data |-> reply.data]

\* The data handed to Request::put with a Request
PutData == [i \in 1..BufCap |-> 3 + (i % 3)]

\* put on the value x
CodecPut ==
    /\ codec.stage = "new"
    /\ codec.kind # "none"
    /\ codec' = [codec EXCEPT
                   !.stage = "put",
                   !.wire = CASE codec.kind = "opt" -> Opt_put(codec.x)
                              [] codec.kind = "req" -> Request_put(codec.x, PutData)
                              [] OTHER -> SimpleReply_put(codec.x)]
    /\ UNCHANGED <<listening, impl, blocks, poisoned, phase, result, hflags,
                   wrote, ops, lastIn, nOpts, nReqs, nReplies, ref, unflushed,
                   committed, durable, calls, nbd, client>>

\* get on what put wrote: a Request into a buffer of BufCap bytes, a
\* SimpleReply into a buffer as long as its data, from a stream that ends
\* after the frame
CodecGet ==
    /\ codec.stage = "put"
    /\ codec' = [codec EXCEPT
                   !.stage = "got",
                   !.back = CASE codec.kind = "opt" -> Opt_get(codec.wire)
                              [] codec.kind = "req" -> Request_get(codec.wire, BufCap)
                              [] OTHER -> SimpleReply_get(<<codec.wire>>, TRUE,
                                                          Len(codec.x.data))]
    /\ UNCHANGED <<listening, impl, blocks, poisoned, phase, result, hflags,
                   wrote, ops, lastIn, nOpts, nReqs, nReplies, ref, unflushed,
                   committed, durable, calls, nbd, client>>

(***************************************************************************)
(* kernel.rs and bin/client.rs: the ioctls on the NBD device.              *)
(***************************************************************************)
\* kernel::close: disconnect(nbd)?, clear_sock(nbd)?
kernel_close == <<"DISCONNECT", "CLEAR_SOCK">>

\* kernel::set_client, after client.size()
kernel_set_client ==
    <<"SET_BLKSIZE", "SET_SIZE_BLOCKS", "SET_FLAGS", "CLEAR_SOCK", "SET_SOCK">>

\* main of bin/client.rs with --disconnect, after open_nbd
main_disconnect == <<"CLEAR_SOCK", "DISCONNECT">>

\* main of bin/client.rs without --disconnect, after Client::connect and
\* open_nbd; DO_IT is issued in the daemon
main_attach ==
    <<"SET_BLKSIZE", "SET_SIZE_BLOCKS", "SET_FLAGS", "CLEAR_SOCK", "SET_SOCK",
      "DO_IT">>

Programs ==
    [close |-> kernel_close, set_client |-> kernel_set_client,
     main_disconnect |-> main_disconnect, main_attach |-> main_attach]

\* The programs that detach the device
Detaching == {"close", "main_disconnect"}

\* A program starts on the device it has opened.  The programs that attach
\* take a Client that Client::new has returned.
Start(prog) ==
    /\ nbd.todo = <<>>
    /\ prog \in Detaching \/ client[1].pc = "ready"
    /\ nbd' = [prog |-> prog, todo |-> Programs[prog], ioctls |-> <<>>,
               ret |-> "none"]
    /\ UNCHANGED <<listening, impl, blocks, poisoned, phase, result, hflags,
                   wrote, ops, lastIn, nOpts, nReqs, nReplies, ref, unflushed,
                   committed, durable, calls, codec, client>>

\* The next ioctl of the program, which succeeds or fails; `?` returns the
\* failure
Ioctl(ok) ==
    /\ nbd.todo # <<>>
    /\ nbd' = [nbd EXCEPT
                 !.ioctls = Append(@, [name |-> Head(nbd.todo), ok |-> ok]),
                 !.todo = IF ok THEN Tail(@) ELSE <<>>,
                 !.ret = IF ~ok THEN "Err"
                         ELSE IF Len(nbd.todo) = 1 THEN "Ok" ELSE "none"]
    /\ UNCHANGED <<listening, impl, blocks, poisoned, phase, result, hflags,
                   wrote, ops, lastIn, nOpts, nReqs, nReplies, ref, unflushed,
                   committed, durable, calls, codec, client>>

(***************************************************************************)
(* server.rs: MemBlocks step by step, called by the threads of several     *)
(* sessions at once.                                                       *)
(***************************************************************************)
\* What the steps of a MemBlocks call leave alone
sessionVars ==
    <<listening, impl, phase, result, hflags, wrote, ops, lastIn, nOpts, nReqs,
      nReplies, ref, unflushed, committed, durable, codec, nbd, client>>

\* A faulty Mutex, whose lock() never waits; C23 must tell it from the code
MutexFree_always == TRUE

\* No thread holds the MutexGuard of MemBlocks' Mutex<Vec<u8>>
MutexFree == \A t \in Conns : ~calls[t].locked

\* A session thread enters read_at, write_at or size
MemCall(t, op, off, len, buf) ==
    /\ calls[t].pc \in {"idle", "done"}
    /\ calls[t].n < MaxCalls
    /\ calls' = [calls EXCEPT ![t] =
                   [pc |-> "lock", op |-> op, off |-> off, len |-> len,
                    buf |-> buf, i |-> 0, locked |-> FALSE, snap |-> <<>>,
                    res |-> "", n |-> @.n + 1]]
    /\ UNCHANGED <<blocks, poisoned>>
    /\ UNCHANGED sessionVars

\* `self.0.lock().unwrap()`: waits for the mutex; panics when it is poisoned
MemLock(t) ==
    /\ calls[t].pc = "lock"
    /\ MutexFree
    /\ calls' = [calls EXCEPT ![t] =
                   IF poisoned
                   THEN [@ EXCEPT !.pc = "panicked", !.res = "panic",
                                  !.snap = blocks]
                   ELSE [@ EXCEPT !.pc = IF calls[t].op = "size" THEN "copy"
                                        ELSE "check",
                                  !.locked = TRUE, !.snap = blocks]]
    /\ UNCHANGED <<blocks, poisoned>>
    /\ UNCHANGED sessionVars

\* `if off + buf.len() > data.len()` and the slice taken after it; a panic
\* drops the guard while panicking, which poisons the mutex
MemCheck(t) ==
    /\ calls[t].pc = "check"
    /\ \E b \in MemBounds(calls[t].off, calls[t].len, Len(blocks)) :
        /\ calls' = [calls EXCEPT ![t] =
                       CASE b = "Ok" -> [@ EXCEPT !.pc = "copy"]
                         [] b = "Err" -> [@ EXCEPT !.pc = "done", !.res = "Err",
                                                   !.locked = FALSE]
                         [] OTHER -> [@ EXCEPT !.pc = "panicked", !.res = "panic",
                                               !.locked = FALSE]]
        /\ poisoned' = (b = "panic")
    /\ UNCHANGED blocks
    /\ UNCHANGED sessionVars

\* copy_from_slice moves one more byte: from the Vec to buf (read_at), or
\* from buf to the Vec (write_at)
MemCopy(t) ==
    /\ calls[t].pc = "copy"
    /\ calls[t].op # "size"
    /\ calls[t].i < calls[t].len
    /\ LET k == calls[t].i + 1
       IN  IF calls[t].op = "read_at"
           THEN /\ calls' = [calls EXCEPT ![t].i = k,
                                          ![t].buf = Append(@, blocks[calls[t].off + k])]
                /\ UNCHANGED blocks
           ELSE /\ calls' = [calls EXCEPT ![t].i = k]
                /\ blocks' = [blocks EXCEPT ![calls[t].off + k] = calls[t].buf[k]]
    /\ UNCHANGED poisoned
    /\ UNCHANGED sessionVars

\* The call returns Ok and the guard is dropped; size returns data.len()
MemReturn(t) ==
    /\ calls[t].pc = "copy"
    /\ calls[t].op = "size" \/ calls[t].i = calls[t].len
    /\ calls' = [calls EXCEPT ![t] =
                   [@ EXCEPT !.pc = "done", !.res = "Ok", !.locked = FALSE,
                             !.len = IF calls[t].op = "size" THEN Len(blocks)
                                      ELSE @]]
    /\ UNCHANGED <<blocks, poisoned>>
    /\ UNCHANGED sessionVars

(***************************************************************************)
(* The bytes the environment sends.                                        *)
(***************************************************************************)
\* The client's flag word: the defined combinations, one with an undefined
\* bit, and a stream that ends before it
ClientFlagInputs ==
    {[avail |-> TRUE, word |-> w] : w \in {0, 1, 2, 3, 5}} \cup
    {[avail |-> FALSE, word |-> 0]}

InfoData(utf8, name_len, name_utf8, typs) ==
    [utf8 |-> utf8, name_len |-> name_len, name_utf8 |-> name_utf8,
     num |-> Len(typs), typs |-> typs]

\* An option frame that arrives whole, with data of the length it announces
OptFrame(option, option_len, data) ==
    [avail |-> 3, magic |-> IHAVEOPT, option |-> option,
     option_len |-> option_len, data_avail |-> option_len, data |-> data]

\* The data of an INFO or GO option for a 7-byte name and the types typs
InfoFrame(option, typs) ==
    OptFrame(option, 4 + 7 + 2 + 2 * Len(typs), InfoData(TRUE, 7, TRUE, typs))

OptInputs ==
    \* EXPORT_NAME "default", and with a name that is not UTF-8
    {OptFrame(1, 7, InfoData(u, 0, TRUE, <<>>)) : u \in BOOLEAN} \cup
    \* ABORT, LIST, PEEK_EXPORT, STARTTLS, and an unknown option
    {OptFrame(t, 0, InfoData(TRUE, 0, TRUE, <<>>)) : t \in {2, 3, 4, 5, 8}} \cup
    \* PEEK_EXPORT and ABORT with data
    {OptFrame(t, 7, InfoData(TRUE, 0, TRUE, <<>>)) : t \in {2, 4}} \cup
    \* INFO and GO
    {InfoFrame(t, typs) : t \in {6, 7},
                          typs \in {<<>>, <<0>>, <<3>>, <<1>>, <<3, 2, 0>>, <<4>>}} \cup
    \* INFO and GO with a name that is not UTF-8, and cut short
    {OptFrame(t, 13, InfoData(FALSE, 7, FALSE, <<>>)) : t \in {6, 7}} \cup
    {OptFrame(t, n, InfoData(TRUE, 7, TRUE, <<3>>)) : t \in {6, 7}, n \in {3, 9, 12, 14}} \cup
    \* INFO and GO whose name_len is 2^30, with no name behind it
    {OptFrame(t, 4, InfoData(TRUE, 2 ^ 30, TRUE, <<>>)) : t \in {6, 7}} \cup
    \* a wrong magic, a length over the limit, a stream that ends early
    {[OptFrame(1, 7, InfoData(TRUE, 0, TRUE, <<>>)) EXCEPT !.magic = MAGIC]} \cup
    {OptFrame(1, n, InfoData(TRUE, 0, TRUE, <<>>)) : n \in {9999, 10000, 10001}} \cup
    {[OptFrame(1, 7, InfoData(TRUE, 0, TRUE, <<>>)) EXCEPT !.avail = a] : a \in 0..2} \cup
    {[OptFrame(1, 7, InfoData(TRUE, 0, TRUE, <<>>)) EXCEPT !.data_avail = 3]}

\* A request frame that arrives whole
ReqFrame(typ, flags, handle, offset, len, payload) ==
    [avail |-> 6, magic |-> REQUEST_MAGIC, flags |-> flags, typ |-> typ,
     handle |-> handle, offset |-> offset, len |-> len, payload |-> payload]

\* n payload bytes that differ from one to the next and from the initial
\* contents of the store
Pattern(b, n) == [i \in 1..n |-> 3 + ((b + i) % 3)]

\* The start of the store, the first offset past a buffer's worth, the end
\* of the store, and the largest offset a usize holds
Offsets == {0, BufCap, StoreSize, USIZE_MAX}

\* READs of up to one byte more than the buffer holds
ReadFrames ==
    {ReqFrame(0, 0, 7, off, len, <<>>) : off \in Offsets, len \in {1, BufCap, BufCap + 1}} \cup
    {ReqFrame(0, 0, 8, 0, 0, <<>>)}

\* WRITEs of up to one byte more than the buffer holds, some with FUA
WriteFrames ==
    {ReqFrame(1, 0, 8, off, len, Pattern(b, len)) :
        off \in Offsets, len \in {1, BufCap + 1}, b \in {1, 2}} \cup
    {ReqFrame(1, FUA, 7, off, 1, <<6>>) : off \in {0, StoreSize}} \cup
    {ReqFrame(1, 0, 7, 0, 0, <<>>)}

\* DISC, FLUSH, TRIM, CACHE, WRITE_ZEROES, BLOCK_STATUS, RESIZE
OtherFrames ==
    {ReqFrame(t, 0, 7, 0, 0, <<>>) : t \in 2..8} \cup
    {ReqFrame(t, FUA, 8, 0, 0, <<>>) : t \in {2, 3, 6}} \cup
    \* TRIM of ranges that end outside the store
    {ReqFrame(4, 0, 8, USIZE_MAX, BufCap + 1, <<>>),
     ReqFrame(4, FUA, 8, 0, StoreSize, <<>>)}

\* Requests with a flag other than FUA
FlaggedFrames ==
    {ReqFrame(t, NO_HOLE, 8, 0, 1, <<1>>) : t \in {0, 1, 2, 3}} \cup
    {ReqFrame(2, FUA + DF, 7, 0, 0, <<>>),
     ReqFrame(4, REQ_ONE, 7, 0, 1, <<>>),
     ReqFrame(5, FAST_ZERO, 8, 0, 0, <<>>)}

\* A wrong magic, an undefined flag bit, an unknown command
MalformedFrames ==
    {[ReqFrame(0, 0, 7, 0, 1, <<>>) EXCEPT !.magic = SIMPLE_REPLY_MAGIC],
     ReqFrame(0, 32, 7, 0, 1, <<>>), ReqFrame(9, 0, 7, 0, 1, <<>>)}

\* Streams that end inside the header or inside the payload of a WRITE
TruncatedFrames ==
    {[ReqFrame(1, 0, 7, 0, 2, <<>>) EXCEPT !.avail = a] : a \in 0..5} \cup
    {ReqFrame(1, 0, 7, 0, 2, p) : p \in {<<>>, <<1>>}} \cup
    \* a WRITE of one byte more than the buffer holds, whose last byte is missing
    {ReqFrame(1, 0, 7, 0, BufCap + 1, Pattern(1, BufCap))} \cup
    {[ReqFrame(9, 0, 7, 0, 1, <<>>) EXCEPT !.avail = a] : a \in 1..3}

ReqInputs ==
    ReadFrames \cup WriteFrames \cup OtherFrames \cup FlaggedFrames \cup
    MalformedFrames \cup TruncatedFrames

(***************************************************************************)
(* The specifications.                                                     *)
(***************************************************************************)
\* One connection to a server that exports a MemBlocks
Next ==
    \E c \in {1} :
        \/ Accept(c) /\ UNCHANGED <<client, calls, codec, nbd>>
        \/ \E cf \in ClientFlagInputs : InitialHandshake(c, cf) /\ UNCHANGED <<client, calls, codec, nbd>>
        \/ \E o \in OptInputs : Haggle(c, o) /\ UNCHANGED <<client, calls, codec, nbd>>
        \/ \E f \in ReqInputs : Transmit(c, f) /\ UNCHANGED <<client, calls, codec, nbd>>

Spec == Init /\ [][Next]_vars

\* One connection to a server that exports a File
SpecFile == InitFile /\ [][Next]_vars

\* What the clients of SpecShared send: the handshake of Client::new or a GO,
\* then reads, writes and flushes as Client sends them, a WRITE longer than
\* the buffer, a WRITE at the largest offset, a DISC, a stream that ends, and
\* a request with a wrong magic
SharedFlagInputs == {[avail |-> TRUE, word |-> 3]}

SharedOptInputs ==
    {OptFrame(1, 7, InfoData(TRUE, 0, TRUE, <<>>)), InfoFrame(7, <<>>)}

SharedReqInputs ==
    {ReqFrame(0, 0, 7, off, len, <<>>) : off \in {0, 1}, len \in {1, BufCap + 1}} \cup
    {ReqFrame(1, 0, 8, off, 1, Pattern(off, 1)) : off \in {0, 1}} \cup
    {ReqFrame(1, 0, 8, 0, BufCap + 1, Pattern(2, BufCap + 1)),
     ReqFrame(1, 0, 8, USIZE_MAX, 1, Pattern(0, 1)),
     ReqFrame(3, 0, 7, 0, 0, <<>>),
     ReqFrame(2, 0, 7, 0, 0, <<>>),
     [ReqFrame(0, 0, 7, 0, 0, <<>>) EXCEPT !.avail = 0],
     [ReqFrame(0, 0, 7, 0, 1, <<>>) EXCEPT !.magic = SIMPLE_REPLY_MAGIC]}

\* Two connections, each served by its own thread, to a server that exports
\* a MemBlocks
NextShared ==
    \E c \in Conns :
        \/ Accept(c) /\ UNCHANGED <<client, calls, codec, nbd>>
        \/ AcceptFails(c) /\ UNCHANGED <<client, calls, codec, nbd>>
        \/ \E cf \in SharedFlagInputs : InitialHandshake(c, cf) /\ UNCHANGED <<client, calls, codec, nbd>>
        \/ \E o \in SharedOptInputs : Haggle(c, o) /\ UNCHANGED <<client, calls, codec, nbd>>
        \/ \E f \in SharedReqInputs : Transmit(c, f) /\ UNCHANGED <<client, calls, codec, nbd>>

SpecShared == Init /\ [][NextShared]_vars

\* The calls the session threads make: reads and writes of two bytes that
\* overlap, a write whose offset makes the sum overflow, and size
MemCallInputs ==
    {<<"read_at", off, 2, <<>>>> : off \in {0, 1}} \cup
    {<<"write_at", off, 2, Pattern(off, 2)>> : off \in {0, 1}} \cup
    {<<"write_at", USIZE_MAX, 1, <<6>>>>, <<"size", 0, 0, <<>>>>} \cup
    \* a read that ends one byte past the end of the store
    {<<"read_at", StoreSize - 1, 2, <<>>>>}

\* Two session threads on one MemBlocks
NextMem ==
    \E t \in Conns :
        \/ \E a \in MemCallInputs : MemCall(t, a[1], a[2], a[3], a[4])
        \/ MemLock(t)
        \/ MemCheck(t)
        \/ MemCopy(t)
        \/ MemReturn(t)

SpecMem == Init /\ [][NextMem]_vars

\* The handles Request::new draws
Handles == {7, 8}

\* The values put is called on: options with data below, at and above
\* 10000 bytes; READ and WRITE requests with every data_len up to the
\* buffer's length; replies with every ErrorType
OptValues ==
    {[typ |-> OptTypeNames[t], len |-> n, data |-> InfoData(TRUE, n, u, <<>>)] :
        t \in 1..7, n \in {0, 4, OPTION_LEN_LIMIT - 1, OPTION_LEN_LIMIT,
                           OPTION_LEN_LIMIT + 1}, u \in BOOLEAN}

RequestValues ==
    {[flags |-> fl, typ |-> t, handle |-> 7, offset |-> o, len |-> l,
      data_len |-> dl] :
        fl \in {{}, {FUA}, {FUA, DF}}, t \in {"READ", "WRITE"},
        o \in {0, USIZE_MAX}, l \in 0..BufCap, dl \in 0..BufCap}

ErrorTypes ==
    {"OK", "EPERM", "EIO", "ENOMEM", "EINVAL", "ENOSPC", "EOVERFLOW", "ENOTSUP",
     "ESHUTDOWN"}

ReplyValues ==
    {[err |-> e, handle |-> h, data |-> d] :
        e \in ErrorTypes, h \in Handles, d \in {<<>>, <<1>>, <<1, 2>>}}

InitCodec ==
    /\ InitServer("mem", InitialBlocks)
    /\ \E k \in {"opt", "req", "reply"} :
         \E v \in (CASE k = "opt" -> OptValues
                     [] k = "req" -> RequestValues
                     [] OTHER -> ReplyValues) :
            codec = [kind |-> k, stage |-> "new", x |-> v, wire |-> <<>>,
                     back |-> <<>>]

NextCodec == CodecPut \/ CodecGet

SpecCodec == InitCodec /\ [][NextCodec]_vars

\* The calls a program makes on its Client: reads inside the store, at its
\* end and of no byte, writes inside the store and at its end, flush and
\* disconnect
ClientCalls ==
    {[op |-> "read", offset |-> off, len |-> len] :
        off \in {0, 1, StoreSize}, len \in 0..BufCap} \cup
    {[op |-> "write", offset |-> off, data |-> Pattern(off, 1)] :
        off \in {0, 1, StoreSize}} \cup
    {[op |-> "flush"], [op |-> "disconnect"]}

\* A server that exports a MemBlocks or a File of any size up to StoreSize
InitClient ==
    \E i \in {"mem", "file"}, n \in 0..StoreSize :
        InitStore(i, SubSeq(InitialBlocks, 1, n))

\* One connection, with a Client at its other end
NextClient ==
    \E c \in {1} :
        \/ ClientConnect(c) /\ UNCHANGED <<calls, codec, nbd>>
        \/ ClientFlags(c) /\ UNCHANGED <<calls, codec, nbd>>
        \/ ClientHaggle(c) /\ UNCHANGED <<calls, codec, nbd>>
        \/ \E call \in ClientCalls, h \in Handles :
              ClientCall(c, call, h) /\ UNCHANGED <<calls, codec, nbd>>

SpecClient == InitClient /\ [][NextClient]_vars

\* A step of Client::new and of the handle_client thread at its other end:
\* each is a read that returns once the other side's bytes have arrived
HandshakeStep ==
    \E c \in {1} :
        /\ ClientConnect(c) \/ ClientFlags(c) \/ ClientHaggle(c)
        /\ UNCHANGED <<calls, codec, nbd>>

\* The same, where the stream delivers what was written and both threads are
\* scheduled: a step of the handshake that stays possible is taken
SpecClientFair == SpecClient /\ WF_vars(HandshakeStep)

\* The programs that open the NBD device, with a Client for those that attach
NextTool ==
    \/ ClientConnect(1) /\ UNCHANGED <<calls, codec, nbd>>
    \/ ClientFlags(1) /\ UNCHANGED <<calls, codec, nbd>>
    \/ ClientHaggle(1) /\ UNCHANGED <<calls, codec, nbd>>
    \/ \E prog \in DOMAIN Programs : Start(prog)
    \/ \E ok \in BOOLEAN : Ioctl(ok)

SpecTool == InitClient /\ [][NextTool]_vars

\* The export info a server sends, and the answers it gives to a request:
\* none, or a SimpleReply with a handle the client drew or another one
PeerInfos ==
    {[frame |-> "ExportInfo", size |-> n, transmit_flags |-> TRANSMIT_FLAGS,
      zeroes |-> 0] : n \in {0, StoreSize}}

PeerAnswers ==
    {<<>>} \cup
    {<<[frame |-> "SimpleReply", magic |-> SIMPLE_REPLY_MAGIC, err |-> e,
        handle |-> h, data |-> d]>> :
        e \in {"OK", "EIO"}, h \in Handles \cup {0},
        d \in {<<>>, Pattern(0, BufCap)}}

\* A Client on a stream whose other end is some NBD server
NextPeer ==
    \/ \E info \in PeerInfos : PeerNew(1, info)
    \/ \E call \in ClientCalls, h \in Handles, answer \in PeerAnswers :
          PeerCall(1, call, h, answer)

SpecPeer == Init /\ [][NextPeer]_vars

(***************************************************************************)
(* What the last step of a connection read and wrote.                      *)
(***************************************************************************)
\* The last step of c read a request frame
ReadReq(c) == lastIn[c].kind = "req"

\* The request frame c read last, and what Request::get made of it
LastFrame(c) == lastIn[c].frame
LastGet(c) == Request_get(lastIn[c].frame, BufCap)

\* The last step of c parsed a request of the command typ
Parsed(c, typ) ==
    ReadReq(c) /\ LastGet(c).status = "Ok" /\ LastGet(c).req.typ = typ

\* The SimpleReply frames the last step of c wrote
LastReplies(c) == SimpleReplies(wrote[c])

\* The flags of the request frame c read last include none but FUA
OnlyFUA(c) == FlagSet(LastFrame(c).flags) \subseteq {FUA}

(***************************************************************************)
(* Properties of one session in TRANSMIT.                                  *)
(***************************************************************************)
\* C1: on a single connection to a memory-backed server, a READ(offset, len)
\* with offset + len <= size and len <= the buffer capacity that is answered
\* OK returns the bytes of the reference array: the initial contents with
\* every WRITE acknowledged OK so far applied in request order.
C1_ReadReturnsReference ==
    ( /\ impl = "mem"
      /\ Parsed(1, "READ")
      /\ LastFrame(1).offset + LastFrame(1).len <= StoreSize
      /\ LastFrame(1).len <= BufCap
      /\ LastReplies(1) # <<>>
      /\ LastReplies(1)[1].err = "OK" )
    => LastReplies(1)[1].data = Slice(ref, LastFrame(1).offset, LastFrame(1).len)

\* C3: a SimpleReply written for the i-th request of a connection is the i-th
\* reply of that connection and carries the handle of that request, whether it
\* reports success or an error.
C3_HandleEcho ==
    \A c \in Conns :
        (ReadReq(c) /\ LastReplies(c) # <<>>)
        => /\ nReplies[c] = nReqs[c]
           /\ \A i \in DOMAIN LastReplies(c) :
                LastReplies(c)[i].handle = LastFrame(c).handle

\* a second request with handle 8 was answered with an error, after a first
\* one with another handle
C3_Witness ==
    /\ nReqs[1] = 2
    /\ ReadReq(1)
    /\ LastFrame(1).handle = 8
    /\ LastReplies(1) # <<>>
    /\ LastReplies(1)[1].err = "EOVERFLOW"
    /\ LastReplies(1)[1].handle = 8

\* C5: a reply to a READ carries exactly len payload bytes when its error is
\* OK and none when its error is not OK, len being the request's len field.
C5_ReadReplyLength ==
    \A c \in Conns :
        Parsed(c, "READ")
        => \A i \in DOMAIN LastReplies(c) :
             Len(LastReplies(c)[i].data) =
                IF LastReplies(c)[i].err = "OK" THEN LastFrame(c).len ELSE 0

\* a READ of a whole buffer was answered OK
C5_Witness ==
    /\ Parsed(1, "READ")
    /\ LastFrame(1).len = BufCap
    /\ LastReplies(1) # <<>>
    /\ LastReplies(1)[1].err = "OK"
    /\ Len(LastReplies(1)[1].data) = BufCap

\* C6 as stated: a READ whose len exceeds the buffer capacity is answered
\* with a data reply of exactly buffer-capacity bytes, not with an error.
C6_OversizedReadTruncated ==
    \A c \in Conns :
        (Parsed(c, "READ") /\ LastFrame(c).len > BufCap)
        => /\ Len(LastReplies(c)) = 1
           /\ LastReplies(c)[1].err = "OK"
           /\ Len(LastReplies(c)[1].data) = BufCap

\* C6: a READ with no flag but FUA whose len exceeds the buffer capacity is
\* answered with one error reply, EOVERFLOW with an empty payload; the store
\* is not read and the session goes on.
C6_OversizedReadOverflow ==
    \A c \in Conns :
        (Parsed(c, "READ") /\ OnlyFUA(c) /\ LastFrame(c).len > BufCap)
        => /\ Len(LastReplies(c)) = 1
           /\ LastReplies(c)[1].err = "EOVERFLOW"
           /\ LastReplies(c)[1].data = <<>>
           /\ ops[c] = <<>>
           /\ phase[c] = "TRANSMIT"

\* a READ of one byte more than the buffer holds, inside the store, was
\* answered
C6_Witness ==
    /\ Parsed(1, "READ")
    /\ OnlyFUA(1)
    /\ LastFrame(1).len = BufCap + 1
    /\ LastFrame(1).offset = 0
    /\ LastReplies(1) # <<>>

\* C7: a WRITE whose len exceeds the buffer capacity is answered with an
\* EOVERFLOW error reply, and the session ends without another request.
C7_OversizedWriteOverflow ==
    \A c \in Conns :
        (Parsed(c, "WRITE") /\ OnlyFUA(c) /\ LastFrame(c).len > BufCap)
        => /\ Len(LastReplies(c)) = 1
           /\ LastReplies(c)[1].err = "EOVERFLOW"
           /\ phase[c] = "CLOSED"

\* C8 as stated: every DISC gets no reply, stops the loop, and handle_client
\* returns Ok.
C8_EveryDiscStops ==
    \A c \in Conns :
        Parsed(c, "DISCONNECT")
        => /\ wrote[c] = <<>>
           /\ phase[c] = "CLOSED"
           /\ result[c] = "Ok"

\* C8: a DISC whose flags include none but FUA gets no reply, stops the loop,
\* and handle_client returns Ok.
C8_DiscStops ==
    \A c \in Conns :
        (Parsed(c, "DISCONNECT") /\ OnlyFUA(c))
        => /\ wrote[c] = <<>>
           /\ ops[c] = <<>>
           /\ phase[c] = "CLOSED"
           /\ result[c] = "Ok"

\* a DISC with FUA arrived after another request
C8_Witness ==
    /\ Parsed(1, "DISCONNECT")
    /\ LastFrame(1).flags = FUA
    /\ nReqs[1] = 2
    /\ result[1] = "Ok"

(***************************************************************************)
(* Streams that end, and malformed frames, described by the bytes sent.    *)
(***************************************************************************)
\* The bytes of f that arrive hold a wrong magic, a flag word with an
\* undefined bit, or an unknown command
ReqMalformed(f) ==
    \/ (f.avail >= 1 /\ f.magic # REQUEST_MAGIC)
    \/ (f.avail >= 2 /\ ~(FlagSet(f.flags) \subseteq CmdFlagsAll))
    \/ (f.avail >= 3 /\ f.typ \notin 0..8)

\* The stream ends inside the header of f, or inside the payload of a WRITE
\* that the server reads into a buffer of cap bytes
ReqEOF(f, cap) ==
    /\ ~ReqMalformed(f)
    /\ \/ f.avail < 6
       \/ (f.typ = 1 /\ Len(f.payload) < Min(f.len, cap))

\* The client's flag word arrives and has an undefined bit
FlagsMalformed(cf) ==
    cf.avail /\ ~(FlagSet(cf.word) \subseteq ClientHandshakeFlagsAll)

\* The option o arrives whole
OptWhole(o) == o.avail = 3 /\ o.data_avail >= o.option_len

\* The bytes of o that arrive hold a wrong magic, an unknown option, a length
\* over the limit, an export name that is not UTF-8, or an unknown InfoType
OptMalformed(o) ==
    \/ (o.avail >= 1 /\ o.magic # IHAVEOPT)
    \/ (o.avail >= 2 /\ o.option \notin 1..7)
    \/ (o.avail >= 3 /\ o.option_len > OPTION_LEN_LIMIT)
    \/ (OptWhole(o) /\ o.option = 1 /\ ~o.data.utf8)
    \/ /\ OptWhole(o)
       /\ o.option \in {6, 7}
       /\ o.option_len >= 4 + o.data.name_len
       /\ ~o.data.name_utf8
    \/ /\ OptWhole(o)
       /\ o.option \in {6, 7}
       /\ \E i \in 1..o.data.num :
            /\ o.option_len >= 4 + o.data.name_len + 2 + 2 * i
            /\ o.data.typs[i] \notin 0..3

\* The last step of c read a malformed frame
ReadMalformed(c) ==
    \/ (lastIn[c].kind = "flags" /\ FlagsMalformed(lastIn[c].frame))
    \/ (lastIn[c].kind = "opt" /\ OptMalformed(lastIn[c].frame))
    \/ (lastIn[c].kind = "req" /\ ReqMalformed(lastIn[c].frame))

\* C4: every request other than DISC that the server parses is answered by
\* exactly one SimpleReply before the server reads again, whether the call of
\* the store succeeds or fails, and no reply is sent without a request.
C4_OneReplyPerRequest ==
    \A c \in Conns :
        /\ nReplies[c] <= nReqs[c]
        /\ ( /\ ReadReq(c)
             /\ LastGet(c).status = "Ok"
             /\ LastGet(c).req.typ # "DISCONNECT" )
           => Len(LastReplies(c)) = 1

\* C9: when the stream ends while the server reads a request (before its
\* first byte, inside the header, or inside the payload of a WRITE),
\* handle_client returns Ok.
C9_EofIsOk ==
    \A c \in Conns :
        (ReadReq(c) /\ ReqEOF(LastFrame(c), BufCap))
        => /\ result[c] = "Ok"
           /\ phase[c] = "CLOSED"

\* the stream ended inside the payload of a WRITE, the second request
C9_Witness ==
    /\ ReadReq(1)
    /\ nReqs[1] = 2
    /\ LastFrame(1).avail = 6
    /\ LastFrame(1).typ = 1
    /\ Len(LastFrame(1).payload) = 1
    /\ LastFrame(1).len = 2
    /\ result[1] = "Ok"

\* C10: a malformed frame in any phase ends the session with an error: the
\* server writes nothing after reading it, calls the store for nothing, and
\* reads no later frame.
C10_MalformedIsFatal ==
    \A c \in Conns :
        ReadMalformed(c)
        => /\ result[c] = "Err"
           /\ phase[c] = "CLOSED"
           /\ wrote[c] = <<>>
           /\ ops[c] = <<>>

\* a GO that asks for an unknown InfoType ended the session
C10_Witness ==
    /\ lastIn[1].kind = "opt"
    /\ lastIn[1].frame.option = 7
    /\ lastIn[1].frame.data.typs = <<4>>
    /\ OptMalformed(lastIn[1].frame)
    /\ result[1] = "Err"

(***************************************************************************)
(* Properties of connections that share a store.                           *)
(***************************************************************************)
\* C2: once a write(off, data) and the flush() after it on the same
\* connection were both acknowledged OK, and no later WRITE overlaps it, a
\* READ(off, data.len()) on any connection is answered OK with exactly data.
C2_WriteFlushRead ==
    [][\A c \in Conns :
         ( /\ nReqs'[c] = nReqs[c] + 1
           /\ IsCmd(lastIn'[c].frame, "READ")
           /\ lastIn'[c].frame.flags = 0 )
         => \A e \in committed :
              ( /\ e.off = lastIn'[c].frame.offset
                /\ Len(e.data) = lastIn'[c].frame.len )
              => /\ Len(SimpleReplies(wrote'[c])) = 1
                 /\ SimpleReplies(wrote'[c])[1].err = "OK"
                 /\ SimpleReplies(wrote'[c])[1].data = e.data]_vars

(***************************************************************************)
(* Properties of the handshake.                                            *)
(***************************************************************************)
\* The option o arrives whole and well-formed, with the type number t
WholeOpt(o, t) ==
    /\ OptWhole(o)
    /\ o.magic = IHAVEOPT
    /\ o.option = t
    /\ o.option_len < OPTION_LEN_LIMIT

\* The last step of c read the option t, whole and well-formed
ReadOpt(c, t) == lastIn[c].kind = "opt" /\ WholeOpt(lastIn[c].frame, t)

\* C11: an option of a type the server knows but does not implement
\* (PEEK_EXPORT, STARTTLS) gets exactly one reply, ERR_UNSUP with data length
\* 0, and leaves the session in HAGGLE; an EXPORT_NAME that follows it is
\* answered with the export info and starts TRANSMIT.
C11_UnsupportedOption ==
    [][\A c \in Conns :
         /\ ( /\ nOpts'[c] = nOpts[c] + 1
              /\ (WholeOpt(lastIn'[c].frame, 4) \/ WholeOpt(lastIn'[c].frame, 5)) )
            => /\ Len(wrote'[c]) = 1
               /\ wrote'[c][1].frame = "OptReply"
               /\ wrote'[c][1].magic = REPLY_MAGIC
               /\ wrote'[c][1].opt = OptType_try_from(lastIn'[c].frame.option)
               /\ wrote'[c][1].reply_type = "ERR_UNSUP"
               /\ wrote'[c][1].len = 0
               /\ wrote'[c][1].data = <<>>
               /\ ops'[c] = <<>>
               /\ phase'[c] = "HAGGLE"
               /\ result'[c] = "none"
         /\ ( /\ ReadOpt(c, 4) \/ ReadOpt(c, 5)
              /\ nOpts'[c] = nOpts[c] + 1
              /\ WholeOpt(lastIn'[c].frame, 1)
              /\ lastIn'[c].frame.data.utf8
              /\ ~poisoned )
            => /\ phase'[c] = "TRANSMIT"
               /\ Len(wrote'[c]) = 1
               /\ wrote'[c][1].frame = "ExportInfo"]_vars

\* a STARTTLS was answered and the session waits for the next option
C11_Witness ==
    /\ ReadOpt(1, 5)
    /\ nOpts[1] = 1
    /\ phase[1] = "HAGGLE"
    /\ Len(wrote[1]) = 1
    /\ wrote[1][1].reply_type = "ERR_UNSUP"

\* C12: a LIST gets exactly one SERVER reply, whose payload is the 4-byte
\* length 7 and the bytes "default", then exactly one ACK, and the session
\* stays in HAGGLE.
C12_List ==
    \A c \in Conns :
        ReadOpt(c, 3)
        => /\ Len(wrote[c]) = 2
           /\ wrote[c][1].frame = "OptReply"
           /\ wrote[c][1].opt = "LIST"
           /\ wrote[c][1].reply_type = "SERVER"
           /\ wrote[c][1].len = 4 + 7
           /\ wrote[c][1].data.name_len = 7
           /\ wrote[c][1].data.name = <<"d", "e", "f", "a", "u", "l", "t">>
           /\ wrote[c][2].frame = "OptReply"
           /\ wrote[c][2].opt = "LIST"
           /\ wrote[c][2].reply_type = "ACK"
           /\ wrote[c][2].len = 0
           /\ phase[c] = "HAGGLE"
           /\ result[c] = "none"

\* a LIST was answered as the second option
C12_Witness ==
    /\ ReadOpt(1, 3)
    /\ nOpts[1] = 2
    /\ Len(wrote[1]) = 2
    /\ phase[1] = "HAGGLE"

\* C13: an ABORT gets no reply; the session never enters TRANSMIT, calls the
\* store for nothing, and handle_client returns Ok.
C13_Abort ==
    \A c \in Conns :
        ReadOpt(c, 2)
        => /\ wrote[c] = <<>>
           /\ ops[c] = <<>>
           /\ phase[c] = "CLOSED"
           /\ nReqs[c] = 0
           /\ result[c] = "Ok"

\* an ABORT with data ended the session
C13_Witness ==
    /\ ReadOpt(1, 2)
    /\ lastIn[1].frame.option_len = 7
    /\ result[1] = "Ok"
    /\ phase[1] = "CLOSED"

\* C14: before it reads the client's flag word the server has written
\* NBD_MAGIC, IHAVEOPT and the flags FIXED_NEWSTYLE | NO_ZEROES, and nothing
\* else; when the word lacks C_FIXED_NEWSTYLE or has an undefined bit the
\* connection fails, and no option is read or answered.
C14_Greeting ==
    \A c \in Conns :
        /\ phase[c] = "GREETING"
           => /\ lastIn[c].kind = "none"
              /\ Len(wrote[c]) = 1
              /\ wrote[c][1].frame = "Greeting"
              /\ wrote[c][1].magic = "NBDMAGIC"
              /\ wrote[c][1].opt_magic = "IHAVEOPT"
              /\ wrote[c][1].flags = {FIXED_NEWSTYLE, NO_ZEROES}
        /\ ( /\ lastIn[c].kind = "flags"
             /\ lastIn[c].frame.avail
             /\ C_FIXED_NEWSTYLE \notin FlagSet(lastIn[c].frame.word)
                  \/ FlagsMalformed(lastIn[c].frame) )
           => /\ result[c] = "Err"
              /\ phase[c] = "CLOSED"
              /\ wrote[c] = <<>>
              /\ nOpts[c] = 0
        /\ nOpts[c] > 0 => FIXED_NEWSTYLE \in hflags[c]

\* a flag word with C_NO_ZEROES but without C_FIXED_NEWSTYLE ended the session
C14_Witness ==
    /\ lastIn[1].kind = "flags"
    /\ lastIn[1].frame.word = C_NO_ZEROES
    /\ result[1] = "Err"
    /\ phase[1] = "CLOSED"

(***************************************************************************)
(* Properties of the commands of the transmission loop.                    *)
(***************************************************************************)
\* The step from the unprimed to the primed state is a step of c that read
\* a request and parsed the command typ
Handled(c, typ) ==
    /\ nReqs'[c] = nReqs[c] + 1
    /\ IsCmd(lastIn'[c].frame, typ)

\* The last step of c parsed a request
ParsedAny(c) == ReadReq(c) /\ LastGet(c).status = "Ok"

\* C17: a request of any command, DISC included, with a defined flag other
\* than FUA is answered with one ENOTSUP error reply, makes no call of the
\* store, and leaves the session in TRANSMIT.
C17_FlagsRejected ==
    \A c \in Conns :
        (ParsedAny(c) /\ ~OnlyFUA(c))
        => /\ Len(wrote[c]) = 1
           /\ LastReplies(c) = wrote[c]
           /\ wrote[c][1].err = "ENOTSUP"
           /\ wrote[c][1].data = <<>>
           /\ ops[c] = <<>>
           /\ phase[c] = "TRANSMIT"
           /\ result[c] = "none"

\* a CACHE with FAST_ZERO was rejected and the session goes on
C17_Witness ==
    /\ ParsedAny(1)
    /\ LastFrame(1).typ = 5
    /\ LastFrame(1).flags = FAST_ZERO
    /\ Len(wrote[1]) = 1
    /\ phase[1] = "TRANSMIT"

\* C18 as stated: every CACHE, WRITE_ZEROES, BLOCK_STATUS or RESIZE is
\* answered with one ENOTSUP reply, the loop stops, handle_client returns Ok.
C18_EveryUnsupportedStops ==
    \A c \in Conns :
        (ParsedAny(c) /\ LastFrame(c).typ \in 5..8)
        => /\ Len(LastReplies(c)) = 1
           /\ LastReplies(c)[1].err = "ENOTSUP"
           /\ phase[c] = "CLOSED"
           /\ result[c] = "Ok"

\* C18: a CACHE, WRITE_ZEROES, BLOCK_STATUS or RESIZE with no flag but FUA is
\* answered with one ENOTSUP reply; the loop stops and handle_client returns
\* Ok.
C18_UnsupportedStops ==
    \A c \in Conns :
        (ParsedAny(c) /\ LastFrame(c).typ \in 5..8 /\ OnlyFUA(c))
        => /\ Len(wrote[c]) = 1
           /\ LastReplies(c) = wrote[c]
           /\ wrote[c][1].err = "ENOTSUP"
           /\ wrote[c][1].data = <<>>
           /\ ops[c] = <<>>
           /\ phase[c] = "CLOSED"
           /\ result[c] = "Ok"

\* a RESIZE, the second request, ended the session
C18_Witness ==
    /\ ParsedAny(1)
    /\ LastFrame(1).typ = 8
    /\ nReqs[1] = 2
    /\ result[1] = "Ok"
    /\ phase[1] = "CLOSED"

\* C19 as stated: every TRIM is answered OK and leaves the store as it was.
C19_EveryTrimOk ==
    [][\A c \in Conns :
         Handled(c, "TRIM")
         => /\ Len(SimpleReplies(wrote'[c])) = 1
            /\ wrote'[c][1].err = "OK"
            /\ blocks' = blocks]_vars

\* C19: a TRIM with no flag but FUA is answered with one OK reply, for every
\* offset and len; the contents and the size of the store do not change, no
\* call of the store is made, and the session goes on.
C19_TrimOk ==
    [][\A c \in Conns :
         (Handled(c, "TRIM") /\ FlagSet(lastIn'[c].frame.flags) \subseteq {FUA})
         => /\ Len(wrote'[c]) = 1
            /\ SimpleReplies(wrote'[c]) = wrote'[c]
            /\ wrote'[c][1].err = "OK"
            /\ wrote'[c][1].data = <<>>
            /\ blocks' = blocks
            /\ Len(blocks') = Len(blocks)
            /\ ops'[c] = <<>>
            /\ phase'[c] = "TRANSMIT"]_vars

\* a TRIM of a range past the largest offset was answered OK
C19_Witness ==
    /\ Parsed(1, "TRIM")
    /\ LastFrame(1).offset = USIZE_MAX
    /\ LastFrame(1).len = BufCap + 1
    /\ Len(wrote[1]) = 1
    /\ wrote[1][1].err = "OK"

\* C20: on a MemBlocks, a READ or WRITE with no flag but FUA, len within the
\* buffer and offset + len past the end of the store is answered with one
\* EOVERFLOW error reply without payload; the store does not change and the
\* session goes on.
C20_OutOfBounds ==
    [][\A c \in Conns :
         ( /\ impl = "mem"
           /\ Handled(c, "READ") \/ Handled(c, "WRITE")
           /\ FlagSet(lastIn'[c].frame.flags) \subseteq {FUA}
           /\ lastIn'[c].frame.len <= BufCap
           /\ lastIn'[c].frame.offset + lastIn'[c].frame.len > Len(blocks) )
         => /\ Len(SimpleReplies(wrote'[c])) = 1
            /\ wrote'[c][1].err = "EOVERFLOW"
            /\ wrote'[c][1].data = <<>>
            /\ blocks' = blocks
            /\ phase'[c] = "TRANSMIT"]_vars

\* The last step of c was a call of Client::read, write or flush that the
\* server answered with an error reply
ErrorReplied(c) ==
    /\ client[c].pc \in {"ready", "blocked"}
    /\ ReadReq(c)
    /\ LastReplies(c) # <<>>
    /\ LastReplies(c)[1].err # "OK"
    /\ LastReplies(c)[1].data = <<>>

\* Client::new has returned Ok on c and no call was made since
ClientNew(c) == client[c].pc = "ready" /\ nReqs[c] = 0

\* C15: when Client::new has returned Ok, the client's size() is the size of
\* the backing store, which is the size the export info reported, whatever
\* that size is.
C15_ClientSize ==
    \A c \in Conns :
        ClientNew(c)
        => /\ client[c].size = Len(blocks)
           /\ wrote[c] # <<>>
           /\ wrote[c][1].frame = "ExportInfo"
           /\ wrote[c][1].size = client[c].size

\* Client::new returned a Client of a File of one byte
C15_Witness ==
    /\ ClientNew(1)
    /\ client[1].size = 1
    /\ Len(blocks) = 1
    /\ impl = "file"

\* C16: when the server answers a read, write or flush of the client with an
\* error reply, the call returns a failure and the Client is ready for its
\* next call.
C16_ErrorReplyFails ==
    \A c \in Conns :
        ErrorReplied(c) => client[c].ret = "Err" /\ client[c].pc = "ready"

\* C21: when a WRITE with the FUA flag is answered OK, write_at and then flush
\* were called and both returned Ok before the reply: the bytes written are
\* in the store and the store is on stable storage.
C21_FuaDurable ==
    [][\A c \in Conns :
         ( /\ Handled(c, "WRITE")
           /\ FUA \in FlagSet(lastIn'[c].frame.flags)
           /\ AckedOK(wrote'[c]) )
         => /\ ops'[c] = <<"write_at", "flush">>
            /\ durable' = blocks'
            /\ \A i \in 1..Min(lastIn'[c].frame.len, BufCap) :
                  blocks'[lastIn'[c].frame.offset + i] = lastIn'[c].frame.payload[i]]_vars

\* a WRITE with FUA was answered OK after writes that were not flushed
C21_Witness ==
    /\ Parsed(1, "WRITE")
    /\ FUA \in FlagSet(LastFrame(1).flags)
    /\ AckedOK(wrote[1])
    /\ impl = "file"
    /\ nReqs[1] = 3
    /\ durable = blocks
    /\ blocks[1] = 6
    /\ blocks[2] # InitialBlocks[2]

\* C22: when a FLUSH is answered OK, the bytes of every WRITE acknowledged OK
\* before it, on any connection, are on stable storage: stable storage holds
\* the reference array.
C22_FlushDurable ==
    [][\A c \in Conns :
         (Handled(c, "FLUSH") /\ AckedOK(wrote'[c]))
         => \A i \in DOMAIN ref' : durable'[i] = ref'[i]]_vars

\* The step ends a call of MemBlocks by thread t
MemEnds(t) ==
    /\ calls[t].pc \notin {"done", "panicked", "idle"}
    /\ calls'[t].pc \in {"done", "panicked"}

\* C23: every read_at, write_at and size of a MemBlocks shared by concurrent
\* threads is atomic, and the calls are totally ordered by their taking of
\* the lock: a call ends as the one-step call does on the Vec it found when
\* it took the lock.  A read_at returns bytes of that Vec, which holds each
\* earlier write whole, and a write_at leaves that Vec with its own bytes in.
C23_MemAtomic ==
    [][\A t \in Conns :
         MemEnds(t)
         => LET c == calls'[t]
                was == poisoned /\ calls[t].pc = "lock"
            IN  CASE c.op = "read_at" ->
                       /\ blocks' = c.snap
                       /\ \E r \in MemBlocks_read_at(c.snap, was, c.len, c.off) :
                             r.res = c.res /\ (r.res = "Ok" => r.bytes = c.buf)
                  [] c.op = "write_at" ->
                       \E r \in MemBlocks_write_at(c.snap, was, c.buf, c.off) :
                          r.res = c.res /\ blocks' = r.data /\ poisoned' = r.pois
                  [] OTHER ->
                       /\ blocks' = c.snap
                       /\ MemBlocks_size(c.snap, was).res = c.res
                       /\ c.res = "Ok" => c.len = MemBlocks_size(c.snap, was).size]_vars

\* a read_at returned the bytes of a write_at of the other thread, which is
\* by now inside its next, overlapping write_at
C23_Witness ==
    /\ calls[1].pc = "done"
    /\ calls[1].op = "read_at"
    /\ calls[1].res = "Ok"
    /\ calls[1].buf = Pattern(0, 2)
    /\ calls[2].pc = "copy"
    /\ calls[2].op = "write_at"
    /\ calls[2].i = 1
    /\ calls[2].off = 1

\* C24: whatever the clients do, Server::start stays inside its accept loop.
C24_AcceptLoopRuns == listening

\* get returned the value put was called on
RoundTrip ==
    CASE codec.kind = "opt" ->
           /\ codec.back.status = "Ok"
           /\ [typ |-> codec.back.typ, len |-> codec.back.len,
               data |-> codec.back.data] = codec.x
      [] codec.kind = "req" ->
           /\ codec.back.status = "Ok"
           /\ codec.back.req = codec.x
           /\ SubSeq(codec.back.buf, 1, codec.x.data_len) =
                 SubSeq(PutData, 1, codec.x.data_len)
      [] OTHER ->
           /\ codec.back.res = "Ok"
           /\ [err |-> codec.back.err, handle |-> codec.back.handle,
               data |-> codec.back.data] = codec.x

DataLenOk(req) == req.data_len = IF req.typ = "WRITE" THEN req.len ELSE 0

C26_OptionLenLimit ==
    (codec.stage = "got" /\ codec.kind = "opt") =>
        /\ codec.back.status = "Ok" <=> codec.wire.option_len <= 10000
        /\ codec.wire.option_len > 10000 =>
              codec.back.status = "Err" /\ codec.back.err = "ProtocolError"

\* C27: the server takes NO_ZEROES as negotiated exactly when the client's
\* flag word has C_NO_ZEROES; its answer to EXPORT_NAME is the size of the
\* store and the transmit flags, followed by 124 zero bytes exactly when
\* NO_ZEROES was not negotiated; with the flag word Client::initial_handshake
\* writes the answer is 10 bytes long, which is what Client::get_export_info
\* reads, and it returns Ok.
C27_ExportNameReply ==
    [][\A c \in Conns :
         /\ (phase[c] = "GREETING" /\ phase'[c] = "HAGGLE")
            => (NO_ZEROES \in hflags'[c]
                  <=> C_NO_ZEROES \in FlagSet(lastIn'[c].frame.word))
         /\ ( /\ nOpts'[c] = nOpts[c] + 1
              /\ WholeOpt(lastIn'[c].frame, 1)
              /\ result'[c] = "none" )
            => /\ Len(wrote'[c]) = 1
               /\ wrote'[c][1].frame = "ExportInfo"
               /\ wrote'[c][1].size = Len(blocks)
               /\ wrote'[c][1].transmit_flags = {HAS_FLAGS, SEND_FLUSH, SEND_FUA}
               /\ wrote'[c][1].zeroes = 124 <=> NO_ZEROES \notin hflags[c]
               /\ wrote'[c][1].zeroes \in {0, 124}
               /\ ExportInfo_len(wrote'[c][1]) =
                     IF NO_ZEROES \in hflags[c] THEN 10 ELSE 134
               /\ phase'[c] = "TRANSMIT"
               /\ hflags[c] = initial_handshake(
                                 [avail |-> TRUE,
                                  word |-> Client_initial_handshake(<<Greeting>>).out]).flags
                  => /\ ExportInfo_len(wrote'[c][1]) = Client_get_export_info_len
                     /\ Client_get_export_info(wrote'[c], FALSE).res = "Ok"
    ]_vars

\* a client that did not set C_NO_ZEROES got the export info and 124 zeroes
C27_Witness ==
    /\ ReadOpt(1, 1)
    /\ phase[1] = "TRANSMIT"
    /\ NO_ZEROES \notin hflags[1]
    /\ wrote[1][1].frame = "ExportInfo"
    /\ wrote[1][1].zeroes = 124

\* The names of the ioctls the program has issued
RECURSIVE Names(_)
Names(tr) == IF tr = <<>> THEN <<>> ELSE <<tr[1].name>> \o Names(Tail(tr))

\* C28: every program that detaches the device (kernel::close and the main
\* of the client tool with --disconnect) issues DISCONNECT first and
\* CLEAR_SOCK second.
C28_DetachOrder ==
    nbd.prog \in Detaching =>
        /\ nbd.ioctls # <<>> => nbd.ioctls[1].name = "DISCONNECT"
        /\ Len(nbd.ioctls) >= 2 => nbd.ioctls[2].name = "CLEAR_SOCK"
        /\ nbd.ret = "Ok" => Names(nbd.ioctls) = <<"DISCONNECT", "CLEAR_SOCK">>

\* The step of c read a whole, well-formed option t and handshake_haggle
\* neither failed nor panicked on it
Haggled(c, t) ==
    /\ nOpts'[c] = nOpts[c] + 1
    /\ WholeOpt(lastIn'[c].frame, t)
    /\ result'[c] = "none"
    /\ wrote'[c] # <<>>

\* The type of the last reply of the frames w
LastReplyType(w) == w[Len(w)].reply_type

\* C29: after a GO the session enters TRANSMIT only when the info exchange
\* ended with an ACK; when it ended with ERR_UNSUP (NAME or DESCRIPTION was
\* requested) the session stays in HAGGLE.
C29_GoOnSuccess ==
    [][\A c \in Conns :
         Haggled(c, 7)
         => /\ phase'[c] = "TRANSMIT" => LastReplyType(wrote'[c]) = "ACK"
            /\ LastReplyType(wrote'[c]) = "ERR_UNSUP" => phase'[c] = "HAGGLE"
    ]_vars

\* The INFO replies among the frames w that carry the info type info
InfoReplies(w, info) ==
    SelectSeq(w, LAMBDA f : f.reply_type = "INFO" /\ f.data.info = info)

\* The requested types of the option frame o that are typ
Requested(o, typ) == {i \in DOMAIN o.data.typs : o.data.typs[i] = typ}

\* C30: an INFO or GO option that requests supported types only (EXPORT,
\* BLOCK_SIZE) gets exactly one INFO reply for EXPORT, with 12 bytes of
\* data, whether or not EXPORT was requested, one INFO reply for each other
\* requested type, and then one ACK, which is the last reply.
C30_OneExportInfo ==
    [][\A c \in Conns : \A t \in {6, 7} :
         ( /\ Haggled(c, t)
           /\ \A i \in DOMAIN lastIn'[c].frame.data.typs :
                 lastIn'[c].frame.data.typs[i] \in {0, 3} )
         => LET w == wrote'[c]
                o == lastIn'[c].frame
            IN  /\ Len(InfoReplies(w, "EXPORT")) = 1
                /\ \A i \in DOMAIN InfoReplies(w, "EXPORT") :
                      InfoReplies(w, "EXPORT")[i].len = 12
                /\ Len(InfoReplies(w, "BLOCK_SIZE")) =
                      Cardinality(Requested(o, 3))
                /\ Len(w) = 1 + Cardinality(Requested(o, 3)) + 1
                /\ LastReplyType(w) = "ACK"
                /\ \A i \in 1..(Len(w) - 1) : w[i].reply_type = "INFO"
    ]_vars

\* The first requested type of the option frame o that is NAME or
\* DESCRIPTION, or 0 when there is none
FirstUnsupported(o) ==
    IF \E i \in DOMAIN o.data.typs : o.data.typs[i] \in {1, 2}
    THEN CHOOSE i \in DOMAIN o.data.typs :
            /\ o.data.typs[i] \in {1, 2}
            /\ \A j \in 1..(i - 1) : o.data.typs[j] \notin {1, 2}
    ELSE 0

\* C31: when an INFO or GO option requests NAME or DESCRIPTION, the server
\* writes an ERR_UNSUP reply without data for it, and that is its last
\* reply: what it wrote before are the INFO replies for the types requested
\* before it, and neither an INFO reply nor an ACK follows.
C31_UnsupportedInfoEnds ==
    [][\A c \in Conns : \A t \in {6, 7} :
         (Haggled(c, t) /\ FirstUnsupported(lastIn'[c].frame) # 0)
         => LET w == wrote'[c]
                k == FirstUnsupported(lastIn'[c].frame)
            IN  /\ Len(w) = k
                /\ w[k].reply_type = "ERR_UNSUP"
                /\ w[k].len = 0
                /\ w[k].data = <<>>
                /\ w[k].opt = OptTypeNames[t]
                /\ \A i \in 1..(k - 1) :
                      /\ w[i].reply_type = "INFO"
                      /\ w[i].data.info =
                            InfoTypeNames[lastIn'[c].frame.data.typs[i] + 1]
    ]_vars

\* an INFO option that asked for BLOCK_SIZE, DESCRIPTION and EXPORT was
\* answered with one INFO reply and the ERR_UNSUP
C31_Witness ==
    /\ ReadOpt(1, 6)
    /\ lastIn[1].frame.data.typs = <<3, 2, 0>>
    /\ Len(wrote[1]) = 2
    /\ wrote[1][1].reply_type = "INFO"
    /\ wrote[1][2].reply_type = "ERR_UNSUP"
    /\ phase[1] = "HAGGLE"

\* The place of a phase in the order of handle_client
PhaseRank(p) ==
    CASE p = "IDLE" -> 0 [] p = "GREETING" -> 1 [] p = "HAGGLE" -> 2
      [] p = "TRANSMIT" -> 3 [] OTHER -> 4

\* The step from the unprimed to the primed state is a step of c
StepOf(c) ==
    \/ phase'[c] # phase[c]
    \/ nOpts'[c] # nOpts[c]
    \/ nReqs'[c] # nReqs[c]

\* C32: a session enters its phases in the order GREETING, HAGGLE, TRANSMIT,
\* CLOSED; it enters TRANSMIT on an answered EXPORT_NAME or GO; before that
\* no step calls read_at, write_at or flush or writes a SimpleReply, and from
\* then on every step reads a request and writes nothing but SimpleReply
\* frames.
C32_PhaseOrder ==
    [][\A c \in Conns :
         StepOf(c)
         => /\ phase'[c] # phase[c]
               => \/ PhaseRank(phase'[c]) = PhaseRank(phase[c]) + 1
                  \/ phase'[c] = "CLOSED"
            /\ phase[c] # "CLOSED"
            /\ phase[c] # "TRANSMIT"
               => /\ \A i \in DOMAIN ops'[c] :
                       ops'[c][i] \notin {"read_at", "write_at", "flush"}
                  /\ SimpleReplies(wrote'[c]) = <<>>
                  /\ nReqs'[c] = 0
                  /\ phase'[c] = "TRANSMIT"
                     => /\ lastIn'[c].kind = "opt"
                        /\ lastIn'[c].frame.option \in {1, 7}
                        /\ wrote'[c] # <<>>
            /\ phase[c] = "TRANSMIT"
               => /\ lastIn'[c].kind = "req"
                  /\ nOpts'[c] = nOpts[c]
                  /\ SimpleReplies(wrote'[c]) = wrote'[c]
                  /\ phase'[c] \in {"TRANSMIT", "CLOSED"}
    ]_vars

\* a session that answered a LIST and then a GO has read from the store
C32_Witness ==
    /\ phase[1] = "TRANSMIT"
    /\ nOpts[1] = 2
    /\ nReqs[1] = 1
    /\ ops[1] = <<"read_at">>
    /\ Len(SimpleReplies(wrote[1])) = 1

\* The lengths of the vectors Opt::get and, for an INFO or GO it parsed,
\* InfoRequest::get allocated on the option frame o
Allocated(o) ==
    LET opt == Opt_get(o)
    IN  {opt.alloc} \cup
        IF opt.status = "Ok" /\ opt.typ \in {"INFO", "GO"}
        THEN {InfoRequest_get(opt.data, opt.len).alloc}
        ELSE {}

\* C33: no length the server reads from an option frame (the option's
\* data length, the name_len of an INFO or GO) makes it allocate more than
\* the 10000 bytes of the option limit.
C33_BoundedAllocation ==
    \A c \in Conns :
        lastIn[c].kind = "opt"
        => \A n \in Allocated(lastIn[c].frame) : n <= 10000

\* The last call of the Client of c was a read, write or flush, and it
\* returned Ok
CallOk(c) ==
    /\ client[c].pc = "ready"
    /\ client[c].ret = "Ok"
    /\ lastIn[c].kind = "req"
    /\ lastIn[c].frame.typ \in {0, 1, 3}

\* C34: a read, write or flush of the Client returns Ok only when the
\* SimpleReply it read carries the handle of the request the call sent.
C34_MatchByHandle ==
    \A c \in Conns :
        CallOk(c)
        => /\ wrote[c] # <<>>
           /\ wrote[c][1].frame = "SimpleReply"
           /\ wrote[c][1].handle = lastIn[c].frame.handle

\* C35: a WRITE whose len exceeds the buffer capacity leaves the store as
\* it was, whatever its offset and the size of the store.
C35_OversizedWriteNoEffect ==
    [][\A c \in Conns :
         (Handled(c, "WRITE") /\ lastIn'[c].frame.len > BufCap)
         => blocks' = blocks
    ]_vars

\* The step ends a read_at or write_at of thread t that found the mutex
\* sound and whose offset and length add up to more than the size of the Vec
MemEndsOutside(t) ==
    /\ MemEnds(t)
    /\ calls[t].pc # "lock"
    /\ calls'[t].op \in {"read_at", "write_at"}
    /\ calls'[t].off + calls'[t].len > Len(calls'[t].snap)

\* C36: a read_at or write_at of MemBlocks whose offset and length add up to
\* more than the size of the store returns an InvalidInput error: it does
\* not panic and does not change the data, for offsets close to the largest
\* usize as well, where the sum wraps around.
C36_MemOutOfBounds ==
    [][\A t \in Conns :
         MemEndsOutside(t)
         => /\ calls'[t].res = "Err"
            /\ calls'[t].pc = "done"
            /\ blocks' = blocks
            /\ ~poisoned'
    ]_vars

\* The step of c parsed a READ or WRITE with no flag, no longer than the
\* buffer and inside the store
HandledInBounds(c) ==
    /\ Handled(c, "READ") \/ Handled(c, "WRITE")
    /\ lastIn'[c].frame.flags = 0
    /\ lastIn'[c].frame.len <= BufCap
    /\ lastIn'[c].frame.offset + lastIn'[c].frame.len <= Len(blocks)

\* C37: when a session has ended, for whatever cause, the READs and WRITEs
\* inside the store of every other connection are answered OK and its
\* EXPORT_NAME and GO get the size of the store.
C37_StoreStaysUsable ==
    [][\A c \in Conns :
         (\E d \in Conns \ {c} : phase[d] = "CLOSED")
         => /\ HandledInBounds(c)
               => /\ AckedOK(wrote'[c])
                  /\ result'[c] = "none"
            /\ (nOpts'[c] = nOpts[c] + 1 /\ WholeOpt(lastIn'[c].frame, 1))
               => /\ wrote'[c] # <<>>
                  /\ result'[c] = "none"
    ]_vars

\* The step of c read the header of a WRITE, whole and well-formed, and the
\* stream ended before the last byte of its payload
ReadCutWrite(c) ==
    /\ nReqs'[c] = nReqs[c] + 1
    /\ lastIn'[c].frame.avail = 6
    /\ ~ReqMalformed(lastIn'[c].frame)
    /\ lastIn'[c].frame.typ = 1
    /\ Len(lastIn'[c].frame.payload) < lastIn'[c].frame.len

\* C38: a WRITE whose payload is cut short by the end of the stream is not
\* applied, not even in part: the store is unchanged, nothing is written to
\* the stream, and handle_client returns Ok.
C38_CutWriteNotApplied ==
    [][\A c \in Conns :
         ReadCutWrite(c)
         => /\ blocks' = blocks
            /\ wrote'[c] = <<>>
            /\ ops'[c] = <<>>
            /\ phase'[c] = "CLOSED"
            /\ result'[c] = "Ok"
    ]_vars

\* The stream ends inside the option o, whose bytes up to there are
\* well-formed
OptEOF(o) == ~OptWhole(o) /\ ~OptMalformed(o)

\* The last step of c found the end of the stream where it read the client's
\* flag word, or inside an option
HandshakeEOF(c) ==
    \/ (lastIn[c].kind = "flags" /\ ~lastIn[c].frame.avail)
    \/ (lastIn[c].kind = "opt" /\ OptEOF(lastIn[c].frame))

\* C39: when the stream ends while the server reads the client's flag word
\* (GREETING) or an option (HAGGLE), handle_client returns an error, not Ok,
\* and nothing is written.
C39_HandshakeEofIsError ==
    \A c \in Conns :
        HandshakeEOF(c)
        => /\ result[c] = "Err"
           /\ phase[c] = "CLOSED"
           /\ wrote[c] = <<>>

\* the stream ended after the option type of the second option
C39_Witness ==
    /\ lastIn[1].kind = "opt"
    /\ lastIn[1].frame.avail = 2
    /\ nOpts[1] = 2
    /\ result[1] = "Err"
    /\ phase[1] = "CLOSED"

\* The handshake of c left no byte unread: the server read the whole option
\* the client put, and the export info it wrote is as long as what
\* get_export_info reads
NoUnread(c) ==
    /\ lastIn[c].kind = "opt"
    /\ lastIn[c].frame = Client_handshake_haggle
    /\ Opt_get(lastIn[c].frame).status = "Ok"
    /\ Opt_get(lastIn[c].frame).len = lastIn[c].frame.data_avail
    /\ Len(wrote[c]) = 1
    /\ wrote[c][1].frame = "ExportInfo"
    /\ ExportInfo_len(wrote[c][1]) = Client_get_export_info_len

\* C40: Client::new and handle_client, run against each other over a
\* reliable stream, do not deadlock in the handshake: eventually Client::new
\* has returned a ready Client and the server is in TRANSMIT, with no
\* handshake byte left unread in either direction.
C40_HandshakeCompletes ==
    <>(ClientNew(1) /\ client[1].ret = "Ok" /\ phase[1] = "TRANSMIT"
         /\ NoUnread(1))

\* Client::new returned a Client of a MemBlocks of StoreSize bytes, and the
\* server waits for its first request
C40_Witness ==
    /\ ClientNew(1)
    /\ client[1].ret = "Ok"
    /\ client[1].size = StoreSize
    /\ impl = "mem"
    /\ phase[1] = "TRANSMIT"
    /\ result[1] = "none"
    /\ NoUnread(1)

====
